---- MODULE Spec2Model ----
(***************************************************************************)
(* A model of the http_storage engine: the document traversal engine with  *)
(* its write-back setter and projection (engine/methods.py), the path      *)
(* resolver (engine/misc.py) and the resource resolution wrapper of the    *)
(* Flask application (flask_app.py).                                       *)
(*                                                                         *)
(* Three specifications share the module, one per component:               *)
(*   SpecTraverse  list_item_get / list_item_put over a stored collection  *)
(*   SpecPath      parse_path over a paths DSN and a list of URL chunks    *)
(*   SpecRequest   one HTTP request through the endpoint decorators        *)
(***************************************************************************)
EXTENDS Integers, Sequences, FiniteSets, TLC

VARIABLES
    store,       \* the collection: _id -> stored document
    pc,          \* position of the engine call: "idle", "traversed", "done"
    call,        \* the engine call in progress or finished, with its result
    paths_dsn,   \* parse_path: the paths DSN (partial tree)
    extra_path,  \* parse_path: the URL chunks
    parsed,      \* parse_path: the returned (result, ok)
    settings,    \* the validated settings document of the application
    request,     \* the HTTP request being answered
    response,    \* the response produced for it
    max_results, \* MAX_RESULTS, computed when engine/methods.py is imported
    listing      \* the list_get call made, with what it handed to find()

vars == <<store, pc, call, paths_dsn, extra_path, parsed, settings, request, response,
          max_results, listing>>
travVars == <<store, pc, call>>
pathVars == <<paths_dsn, extra_path, parsed>>
reqVars == <<settings, request, response>>
listVars == <<max_results, listing>>

(***************************************************************************)
(* Bounds of the model.                                                    *)
(***************************************************************************)
MaxPath == 4        \* longest de-referencing path handed to the engine
MaxProjPath == 2    \* longest path combined with a projection
MaxProj == 2        \* most entries of a projection
MaxSegs == 3        \* most URL chunks handed to parse_path

(***************************************************************************)
(* Document values.  A BSON/JSON value is tagged with its Python type: a   *)
(* dict is a function from its keys, a list a sequence, a string the       *)
(* sequence of its characters (Python indexes strings).                    *)
(***************************************************************************)
Null == [t |-> "null"]
IntV(n) == [t |-> "int", n |-> n]
StrV(c) == [t |-> "str", c |-> c]
DictV(f) == [t |-> "dict", d |-> f]
ListV(s) == [t |-> "list", l |-> s]
BoolV(b) == [t |-> "bool", b |-> b]
EmptyDict == [k \in {} |-> Null]

(* A subscript of a path: a string key, an integer index, or None. *)
Key(s) == [k |-> "key", s |-> s]
Idx(n) == [k |-> "idx", n |-> n]
NoneSub == [k |-> "none"]

Front(s) == SubSeq(s, 1, Len(s) - 1)
Last(s) == s[Len(s)]

(* Sequences over S of length lo..hi. *)
SeqsOf(S, lo, hi) == UNION {[1..n -> S] : n \in lo..hi}

(***************************************************************************)
(* Python subscripting, part_[subscript] (methods.py line 140).  ok=FALSE  *)
(* stands for the KeyError, IndexError or TypeError the bare except of     *)
(* line 142 swallows.  A negative index counts from the end.               *)
(***************************************************************************)
PyIndex(n, len) == IF n < 0 THEN len + n + 1 ELSE n + 1

GetItem_DictGet(part, subscript) ==
    LET fail == [ok |-> FALSE, val |-> Null] IN
    CASE part.t = "dict" ->
            IF subscript.k # "key" THEN fail
            ELSE [ok |-> TRUE,
                  val |-> IF subscript.s \in DOMAIN part.d THEN part.d[subscript.s] ELSE Null]
      [] part.t = "list" ->
            IF subscript.k = "idx" /\ PyIndex(subscript.n, Len(part.l)) \in 1..Len(part.l)
            THEN [ok |-> TRUE, val |-> part.l[PyIndex(subscript.n, Len(part.l))]]
            ELSE fail
      [] part.t = "str" ->
            IF subscript.k = "idx" /\ PyIndex(subscript.n, Len(part.c)) \in 1..Len(part.c)
            THEN [ok |-> TRUE, val |-> StrV(<<part.c[PyIndex(subscript.n, Len(part.c))]>>)]
            ELSE fail
      [] OTHER -> fail

GetItem(part, subscript) ==
    LET fail == [ok |-> FALSE, val |-> Null] IN
    CASE part.t = "dict" ->
            IF subscript.k = "key" /\ subscript.s \in DOMAIN part.d
            THEN [ok |-> TRUE, val |-> part.d[subscript.s]]
            ELSE fail
      [] part.t = "list" ->
            IF subscript.k = "idx" /\ PyIndex(subscript.n, Len(part.l)) \in 1..Len(part.l)
            THEN [ok |-> TRUE, val |-> part.l[PyIndex(subscript.n, Len(part.l))]]
            ELSE fail
      [] part.t = "str" ->
            IF subscript.k = "idx" /\ PyIndex(subscript.n, Len(part.c)) \in 1..Len(part.c)
            THEN [ok |-> TRUE, val |-> StrV(<<part.c[PyIndex(subscript.n, Len(part.c))]>>)]
            ELSE fail
      [] OTHER -> fail

(***************************************************************************)
(* Python item assignment, parent[subscript] = replacement (line 98), on a *)
(* subscript that GetItem accepted.  A str does not support it: TypeError. *)
(***************************************************************************)
SetItem(parent, subscript, replacement) ==
    CASE parent.t = "dict" /\ subscript.k = "key" ->
            [ok |-> TRUE,
             val |-> DictV([k \in DOMAIN parent.d \cup {subscript.s} |->
                              IF k = subscript.s THEN replacement ELSE parent.d[k]])]
      [] parent.t = "list" /\ subscript.k = "idx" ->
            [ok |-> TRUE,
             val |-> ListV([parent.l EXCEPT ![PyIndex(subscript.n, Len(parent.l))] = replacement])]
      [] parent.t = "str" -> [ok |-> FALSE, val |-> parent]

(* The object reached from document by the subscripts of loc. *)
RECURSIVE At(_, _)
At(document, loc) ==
    IF loc = <<>> THEN document
    ELSE At(GetItem(document, Head(loc)).val, Tail(loc))

(* The document after the object at loc is mutated in place into new: every
   container on the way is the same Python object, aliased by the document. *)
RECURSIVE Mutated(_, _, _)
Mutated(document, loc, new) ==
    IF loc = <<>> THEN new
    ELSE SetItem(document, Head(loc),
                 Mutated(GetItem(document, Head(loc)).val, Tail(loc), new)).val

(***************************************************************************)
(* Projections.  kind "list" is a list of field names, kind "dict" a dict  *)
(* field -> flag in insertion order (distinct keys), kind "other" a truthy *)
(* value that is neither; "none" is None.  An empty list or dict is falsy. *)
(***************************************************************************)
NoProjection == [kind |-> "none", items |-> <<>>]
Truthy(projection) ==
    projection.kind = "other" \/ (projection.kind \in {"list", "dict"} /\ projection.items # <<>>)
ProjKeys(projection) == {projection.items[i].k : i \in DOMAIN projection.items}
(* bool(v) of the values of the dict form; the list form is {k: True}. *)
ProjFlags(projection) ==
    IF projection.kind = "list" THEN {TRUE}
    ELSE {projection.items[i].v : i \in DOMAIN projection.items}

(* len(flags) >= 2 (line 162): the dict has both exclusions and inclusions. *)
Conflicting_OffByOne(projection) == Cardinality(ProjFlags(projection)) > 2
Conflicting(projection) == Cardinality(ProjFlags(projection)) >= 2

(* The loop of _document_traverse: part and the subscripts applied so far
   (the setter is made from the last of them and the object before it). *)
RECURSIVE Walk(_, _, _, _)
Walk(part, loc, path, i) ==
    IF i > Len(path) THEN [found |-> TRUE, part |-> part, loc |-> loc]
    ELSE IF part = Null THEN [found |-> FALSE, part |-> Null, loc |-> <<>>]
    ELSE IF path[i] = NoneSub THEN Walk(part, loc, path, i + 1)
    ELSE LET got == GetItem(part, path[i]) IN
         IF ~got.ok THEN [found |-> FALSE, part |-> Null, loc |-> <<>>]
         ELSE Walk(got.val, Append(loc, path[i]), path, i + 1)

(* The projection applied to a dict part (lines 157-172): the value returned
   and what is left of the live part after the pops. *)
Included_IfPresent(part, projection) ==
    DictV([k \in ProjKeys(projection) \cap DOMAIN part.d |-> part.d[k]])
Included(part, projection) ==
    DictV([k \in ProjKeys(projection) |-> IF k \in DOMAIN part.d THEN part.d[k] ELSE Null])
Popped(part, projection) ==
    DictV([k \in DOMAIN part.d \ ProjKeys(projection) |-> part.d[k]])
Projected_FlagIgnored(part, projection) == Included(part, projection)
Projected(part, projection) ==
    IF TRUE \in ProjFlags(projection) THEN Included(part, projection)
    ELSE Popped(part, projection)

(***************************************************************************)
(* _document_traverse.  The result carries found, the part, the setter     *)
(* (has, and loc: the subscripts from the document to the part, the last   *)
(* one being the setter's subscript and the ones before it leading to its  *)
(* parent), the in-memory document as the call leaves it, and the          *)
(* exception raised, if any.                                               *)
(***************************************************************************)
NotFoundResult(document) ==
    [found |-> FALSE, value |-> Null, has |-> FALSE, loc |-> <<>>,
     document |-> document, raised |-> "none"]

Traverse(document, path, projection) ==
    LET w == Walk(document, <<>>, path, 1)
        res(value, doc, raised) ==
            [found |-> raised = "none", value |-> value, has |-> w.loc # <<>>, loc |-> w.loc,
             document |-> doc, raised |-> raised]
    IN  IF ~w.found THEN NotFoundResult(document)
        ELSE IF w.part = Null THEN res(Null, document, "none")
        ELSE IF ~(w.part.t = "dict" /\ Truthy(projection)) THEN res(w.part, document, "none")
        ELSE IF projection.kind = "other" THEN res(Null, document, "TypeError")
        ELSE IF Conflicting(projection) THEN res(Null, document, "ValueError")
        ELSE res(Projected(w.part, projection),
                 Mutated(document, w.loc, Popped(w.part, projection)), "none")

(***************************************************************************)
(* The setter of _make_setter: parent[subscript] = replacement on the      *)
(* in-memory document, then replace_one({"_id": document["_id"]}, document)*)
(***************************************************************************)
ReplaceOne(collection, id, document) ==
    IF id \in DOMAIN collection THEN [collection EXCEPT ![id] = document] ELSE collection

Setter_PartialUpdate(collection, document, loc, replacement) ==
    LET id == document.d["_id"].n
    IN  [raised |-> "none",
         collection |-> [collection EXCEPT ![id] = Mutated(collection[id], loc, replacement)]]

Setter(collection, document, loc, replacement) ==
    LET parent == At(document, Front(loc))
        set == SetItem(parent, Last(loc), replacement)
        doc == Mutated(document, Front(loc), set.val)
    IN  IF ~set.ok THEN [raised |-> "TypeError", collection |-> collection]
        ELSE [raised |-> "none", collection |-> ReplaceOne(collection, doc.d["_id"].n, doc)]

(***************************************************************************)
(* The inputs of the engine calls.                                         *)
(***************************************************************************)
Subscripts == {Key("a"), Key("b"), Key("c"), Idx(0), Idx(1), Idx(-1), NoneSub}
Paths == SeqsOf(Subscripts, 0, MaxPath)
ProjNames == {"b", "z"}
ProjItems == [k : ProjNames, v : BOOLEAN]
Projections ==
    {NoProjection, [kind |-> "other", items |-> <<>>]}
    \cup {[kind |-> "list", items |-> q] : q \in SeqsOf([k : ProjNames, v : {TRUE}], 0, MaxProj)}
    \cup {[kind |-> "dict", items |-> q] :
            q \in {r \in SeqsOf(ProjItems, 0, MaxProj) :
                     \A i, j \in DOMAIN r : i # j => r[i].k # r[j].k}}
Replacements == {IntV(99), DictV([c |-> IntV(1)])}

(* The documents the collection starts with under _id 1; _id 2 holds Other. *)
Doc(id, fields) == DictV([k \in DOMAIN fields \cup {"_id"} |-> IF k = "_id" THEN IntV(id) ELSE fields[k]])
Samples ==
    { Doc(1, [a |-> DictV([b |-> ListV(<<DictV([c |-> IntV(1)]), DictV([c |-> IntV(2)])>>)])]),
      Doc(1, [a |-> StrV(<<"x", "y">>), b |-> Null, c |-> ListV(<<IntV(1), StrV(<<"z">>)>>)]),
      Doc(1, [a |-> DictV([b |-> IntV(1), c |-> StrV(<<"x", "y">>)]),
              b |-> ListV(<<ListV(<<IntV(1)>>), DictV(EmptyDict)>>),
              c |-> DictV([a |-> Null, b |-> DictV([z |-> IntV(2)])])]) }
Other == Doc(2, [a |-> DictV([c |-> IntV(3)])])
StoredIds == {1, 2}
RequestIds == {1, 3}

NoCall ==
    [op |-> "none", id |-> 0, path |-> <<>>, projection |-> NoProjection, replacement |-> Null,
     element |-> Null, found |-> FALSE, value |-> Null, has |-> FALSE, loc |-> <<>>,
     document |-> Null, raised |-> "none", ok |-> FALSE]

(* collection.find_one({"_id": object_id}): the stored document, or None. *)
FindOne(collection, id) == IF id \in DOMAIN collection THEN collection[id] ELSE Null

(***************************************************************************)
(* list_item_get.  Without a path the projection goes to the database; the *)
(* model hands it none in that case.                                       *)
(***************************************************************************)
ItemGet(id, path, projection) ==
    /\ pc = "idle"
    /\ path = <<>> => projection = NoProjection
    /\ Len(path) > MaxProjPath => projection = NoProjection
    /\ LET element == FindOne(store, id)
           r == IF path = <<>> \/ element = Null THEN NotFoundResult(element)
                ELSE Traverse(element, path, projection)
           start == [NoCall EXCEPT !.op = "get", !.id = id, !.path = path,
                                   !.projection = projection, !.element = element]
       IN  call' = IF path = <<>>
                   THEN [start EXCEPT !.found = element # Null, !.value = element,
                                      !.document = element]
                   ELSE [start EXCEPT !.found = r.found, !.value = r.value, !.has = r.has,
                                      !.loc = r.loc, !.document = r.document,
                                      !.raised = r.raised]
    /\ pc' = "done"
    /\ UNCHANGED <<store, pathVars, reqVars, listVars>>

(***************************************************************************)
(* list_item_put up to the setter call (lines 233-252).  Without a path it *)
(* is one replace_one of the whole document and the call is over.          *)
(***************************************************************************)
WholeReplace(collection, id, replacement) ==
    IF id \in DOMAIN collection
    THEN [collection EXCEPT ![id] = DictV([k \in DOMAIN replacement.d \cup {"_id"} |->
                                   IF k = "_id" THEN collection[id].d["_id"] ELSE replacement.d[k]])]
    ELSE collection

PutRead(collection, id, replacement, path) ==
    LET element == FindOne(collection, id)
        start == [NoCall EXCEPT !.op = "put", !.id = id, !.path = path,
                                !.replacement = replacement, !.element = element]
        r == Traverse(element, path, NoProjection)
        left(c, position, coll) == [call |-> c, pc |-> position, collection |-> coll]
    IN  IF path = <<>>
        THEN IF replacement.t # "dict"
             THEN left([start EXCEPT !.raised = "TypeError"], "done", collection)
             ELSE left([start EXCEPT !.ok = (WholeReplace(collection, id, replacement) # collection)],
                       "done", WholeReplace(collection, id, replacement))
        ELSE IF element = Null \/ ~r.found
             THEN left(start, "done", collection)
             ELSE left([start EXCEPT !.found = TRUE, !.value = r.value, !.has = r.has,
                                     !.loc = r.loc, !.document = r.document],
                       "traversed", collection)

ItemPutRead(id, replacement, path) ==
    /\ pc = "idle"
    /\ call' = PutRead(store, id, replacement, path).call
    /\ pc' = PutRead(store, id, replacement, path).pc
    /\ store' = PutRead(store, id, replacement, path).collection
    /\ UNCHANGED <<pathVars, reqVars, listVars>>

(* list_item_put, lines 253-254: setter(replacement); return True. *)
PutWrite(collection, c) ==
    LET w == Setter(collection, c.document, c.loc, c.replacement)
    IN  IF ~c.has
        THEN [call |-> [c EXCEPT !.raised = "TypeError"], collection |-> collection]
        ELSE [call |-> [c EXCEPT !.raised = w.raised, !.ok = (w.raised = "none")],
              collection |-> w.collection]

ItemPutWrite ==
    /\ pc = "traversed"
    /\ call' = PutWrite(store, call).call
    /\ store' = PutWrite(store, call).collection
    /\ pc' = "done"
    /\ UNCHANGED <<pathVars, reqVars, listVars>>

(***************************************************************************)
(* Two callers of list_item_put at once.  Each is a thread of the server   *)
(* with its own local variables: here pc and call hold one entry for each  *)
(* caller.  The find_one of a call and its replace_one are two round trips *)
(* to the database, and the other caller may run between them.             *)
(***************************************************************************)
Writers == {1, 2}
RacePaths ==
    {<<Key("a"), Key("b")>>, <<Key("a"), Key("c")>>, <<Key("c"), Key("a")>>,
     <<Key("c"), Key("b"), Key("z")>>, <<Key("b"), Idx(0)>>, <<Key("b"), Idx(1)>>}
RaceDocument ==
    Doc(1, [a |-> DictV([b |-> IntV(1), c |-> StrV(<<"x", "y">>)]),
            b |-> ListV(<<ListV(<<IntV(1)>>), DictV(EmptyDict)>>),
            c |-> DictV([a |-> Null, b |-> DictV([z |-> IntV(2)])])])

WriterPutRead(w, id, replacement, path) ==
    /\ pc[w] = "idle"
    /\ call' = [call EXCEPT ![w] = PutRead(store, id, replacement, path).call]
    /\ pc' = [pc EXCEPT ![w] = PutRead(store, id, replacement, path).pc]
    /\ store' = PutRead(store, id, replacement, path).collection
    /\ UNCHANGED <<pathVars, reqVars, listVars>>

WriterPutWrite(w) ==
    /\ pc[w] = "traversed"
    /\ call' = [call EXCEPT ![w] = PutWrite(store, call[w]).call]
    /\ store' = PutWrite(store, call[w]).collection
    /\ pc' = [pc EXCEPT ![w] = "done"]
    /\ UNCHANGED <<pathVars, reqVars, listVars>>


(***************************************************************************)
(* parse_path (engine/misc.py).  A paths DSN maps a chunk to a partial     *)
(* [field, type, children]; the chunks are strings.  The result is the     *)
(* list the function builds: field names and dict keys as Key, list        *)
(* indexes as Idx; none tells that None was returned in its place.         *)
(***************************************************************************)
Partial(field, type, children) == [field |-> field, type |-> type, children |-> children]
NoPartial == Partial("", "", <<>>)
Failed == [ok |-> FALSE, none |-> TRUE, result |-> <<>>, raised |-> "none", called |-> TRUE]
Succeeded(result) == [ok |-> TRUE, none |-> FALSE, result |-> result, raised |-> "none", called |-> TRUE]

(* int(chunk) of line 32, on the chunks of the model: the number, or ValueError. *)
PyInt(chunk) ==
    CASE chunk = "0" -> [ok |-> TRUE, n |-> 0]
      [] chunk = "1" -> [ok |-> TRUE, n |-> 1]
      [] chunk = "-1" -> [ok |-> TRUE, n |-> -1]
      [] chunk = "2" -> [ok |-> TRUE, n |-> 2]
      [] chunk = "3" -> [ok |-> TRUE, n |-> 3]
      [] chunk = "20" -> [ok |-> TRUE, n |-> 20]
      [] OTHER -> [ok |-> FALSE, n |-> 0]

(* paths_dsn.get(chunk, {}) of line 40: always on the DSN the call was given. *)
Lookup(dsn, chunk) == IF chunk \in DOMAIN dsn THEN dsn[chunk] ELSE NoPartial

(* except StopIteration (lines 71-77). *)
OnStopIteration_AlwaysOk(expecting_dict_key, result) == Succeeded(result)
OnStopIteration(expecting_dict_key, result) ==
    IF expecting_dict_key THEN Failed ELSE Succeeded(result)

(* except Exception (lines 78-80). *)
OnException_Reraised(exception) == [Failed EXCEPT !.raised = exception]
OnException(exception) == Failed

(* The while loop (lines 26-70): i is the next chunk of the iterator. *)
RECURSIVE Scan(_, _, _, _, _)
Scan(dsn, path, i, result, expecting_optional_list_index) ==
    IF expecting_optional_list_index
    THEN IF i > Len(path) THEN OnStopIteration(FALSE, result)
         ELSE IF ~PyInt(path[i]).ok THEN OnException("ValueError")
         ELSE Scan(dsn, path, i + 1, Append(result, Idx(PyInt(path[i]).n)), FALSE)
    ELSE IF i > Len(path) THEN OnStopIteration(FALSE, result)
    ELSE LET path_dsn == Lookup(dsn, path[i])
             withField == Append(result, Key(path_dsn.field))
         IN  IF path_dsn = NoPartial THEN Failed
             ELSE CASE path_dsn.type = "scalar" -> Scan(dsn, path, i + 1, withField, FALSE)
                    [] path_dsn.type = "list" -> Scan(dsn, path, i + 1, withField, TRUE)
                    [] path_dsn.type = "dict" ->
                         IF i + 1 > Len(path) THEN OnStopIteration(TRUE, withField)
                         ELSE Scan(dsn, path, i + 2, Append(withField, Key(path[i + 1])), FALSE)
                    [] OTHER -> Failed

(* Without a paths DSN (lines 81-85): no path should be present. *)
WithoutDsn(path) ==
    IF path # <<>> THEN Failed ELSE [Succeeded(<<>>) EXCEPT !.none = TRUE]

ParsePath_EmptyPathOk(dsn, path) ==
    IF DOMAIN dsn # {}
    THEN IF path = <<>> THEN Succeeded(<<>>) ELSE Scan(dsn, path, 1, <<>>, FALSE)
    ELSE WithoutDsn(path)

ParsePath(dsn, path) ==
    IF DOMAIN dsn # {}
    THEN IF path = <<>> THEN Failed ELSE Scan(dsn, path, 1, <<>>, FALSE)
    ELSE WithoutDsn(path)

Chunks == {"aa", "bb", "ls", "dc", "0", "-1", "xx"}
NoChildren == [k \in {} |-> NoPartial]
Dsns ==
    { NoChildren,
      [aa |-> Partial("f_aa", "scalar", [bb |-> Partial("f_bb", "scalar", NoChildren)]),
       ls |-> Partial("f_ls", "list", [aa |-> Partial("f_el", "scalar", NoChildren)]),
       dc |-> Partial("f_dc", "dict", NoChildren)],
      [aa |-> Partial("f_aa", "scalar", NoChildren),
       bb |-> Partial("f_bb", "scalar", NoChildren)],
      [aa |-> Partial("f_aa", "scalar", [ls |-> Partial("f_in", "list", NoChildren)]),
       bb |-> Partial("f_bb", "dict", [xx |-> Partial("f_xx", "scalar", NoChildren)])],
      [ls |-> Partial("f_ls", "list", NoChildren)],
      [dc |-> Partial("f_dc", "dict", [dc |-> Partial("f_dd", "dict", NoChildren)]),
       xx |-> Partial("f_xx", "list", [aa |-> Partial("f_aa", "scalar", NoChildren)])] }

NoDsn == NoChildren
NoParse == [ok |-> FALSE, none |-> TRUE, result |-> <<>>, raised |-> "none", called |-> FALSE]

Parse(path) ==
    /\ ~parsed.called
    /\ extra_path' = path
    /\ parsed' = ParsePath(paths_dsn, path)
    /\ UNCHANGED <<paths_dsn, travVars, reqVars, listVars>>

(***************************************************************************)
(* The store's find(): the documents of the collection that match the      *)
(* filter, in natural (insertion, here _id) order, then sorted by the sort *)
(* criteria (a stable sort, a missing field before any number), then the   *)
(* first skip of them dropped, then at most limit of them kept (limit 0    *)
(* keeps them all).  A filter is a dict of field -> value to be equal to;  *)
(* a field the document lacks equals no value.                             *)
(***************************************************************************)
Max(a, b) == IF a >= b THEN a ELSE b
Min(a, b) == IF a <= b THEN a ELSE b
ASCENDING == 1
DESCENDING == -1

RECURSIVE Ascending(_)
Ascending(S) ==
    IF S = {} THEN <<>>
    ELSE LET m == CHOOSE x \in S : \A y \in S : x <= y
         IN  <<m>> \o Ascending(S \ {m})

Matches(document, filter) ==
    \A k \in DOMAIN filter : k \in DOMAIN document.d /\ document.d[k] = filter[k]

Matching(collection, filter) ==
    LET ids == Ascending({i \in DOMAIN collection : Matches(collection[i], filter)})
    IN  [j \in DOMAIN ids |-> collection[ids[j]]]

SortKey(document, field) == IF field \in DOMAIN document.d THEN document.d[field] ELSE Null
ValueLess(a, b) ==
    \/ a = Null /\ b # Null
    \/ a.t = "int" /\ b.t = "int" /\ a.n < b.n

RECURSIVE Before(_, _, _)
Before(a, b, sort) ==
    /\ sort # <<>>
    /\ LET x == SortKey(a, Head(sort).field)
           y == SortKey(b, Head(sort).field)
           up == Head(sort).direction = ASCENDING
       IN  \/ IF up THEN ValueLess(x, y) ELSE ValueLess(y, x)
           \/ /\ ~(IF up THEN ValueLess(y, x) ELSE ValueLess(x, y))
              /\ Before(a, b, Tail(sort))

RECURSIVE Inserted(_, _, _)
Inserted(sorted, document, sort) ==
    IF sorted = <<>> THEN <<document>>
    ELSE IF Before(document, Head(sorted), sort) THEN <<document>> \o sorted
    ELSE <<Head(sorted)>> \o Inserted(Tail(sorted), document, sort)

RECURSIVE Sorted(_, _)
Sorted(documents, sort) ==
    IF documents = <<>> THEN <<>>
    ELSE Inserted(Sorted(Front(documents), sort), Last(documents), sort)

Skipped(documents, skip) == SubSeq(documents, skip + 1, Len(documents))
Limited(documents, limit) ==
    IF limit = 0 THEN documents ELSE SubSeq(documents, 1, Min(limit, Len(documents)))

Find(collection, filter, sort, skip, limit) ==
    Limited(Skipped(Sorted(Matching(collection, filter), sort), skip), limit)

(***************************************************************************)
(* list_get and its Cursor (engine/methods.py).  A cursor field that is    *)
(* None is Null, a number is IntV; order_by is None or a list of names.    *)
(***************************************************************************)
MaxResultsOf(value) == Max(1, PyInt(value).n)
DefaultMaxResults == MaxResultsOf("20")

Cursor(order_by, offset, limit) == [order_by |-> order_by, offset |-> offset, limit |-> limit]

(* One element of order_by, after strip(): its field and its direction. *)
Criterion(element) ==
    CASE element \in {"", " "} -> [raised |-> "ValueError", field |-> "", direction |-> ASCENDING]
      [] element = "_id" -> [raised |-> "none", field |-> "_id", direction |-> ASCENDING]
      [] element = "-_id" -> [raised |-> "none", field |-> "_id", direction |-> DESCENDING]
      [] element = "k" -> [raised |-> "none", field |-> "k", direction |-> ASCENDING]
      [] element = " k" -> [raised |-> "none", field |-> "k", direction |-> ASCENDING]
      [] element = "-k" -> [raised |-> "none", field |-> "k", direction |-> DESCENDING]

sort_criteria(order_by) ==
    IF order_by = Null \/ order_by.l = <<>> THEN [raised |-> "none", sort |-> <<>>]
    ELSE IF \E i \in DOMAIN order_by.l : Criterion(order_by.l[i]).raised # "none"
    THEN [raised |-> "ValueError", sort |-> <<>>]
    ELSE [raised |-> "none",
          sort |-> [i \in DOMAIN order_by.l |->
                       [field |-> Criterion(order_by.l[i]).field,
                        direction |-> Criterion(order_by.l[i]).direction]]]

NoListing ==
    [called |-> FALSE, cursor |-> Null, raised |-> "none", skip |-> 0, limit |-> 0,
     sort |-> <<>>, result |-> <<>>]

list_get(collection, filter, cursor) ==
    LET skip0 == 0
        limit == max_results
        skip1 == IF cursor # Null /\ cursor.offset # Null THEN Max(0, cursor.offset.n) ELSE skip0
        skip == IF cursor # Null /\ cursor.limit # Null THEN Max(1, cursor.limit.n) ELSE skip1
        criteria == IF cursor # Null /\ cursor.order_by # Null
                    THEN sort_criteria(cursor.order_by)
                    ELSE [raised |-> "none", sort |-> <<>>]
    IN  [called |-> TRUE, cursor |-> cursor, raised |-> criteria.raised,
         skip |-> skip, limit |-> limit, sort |-> criteria.sort,
         result |-> IF criteria.raised # "none" THEN <<>>
                    ELSE Find(collection, filter, criteria.sort, skip, limit)]

(* The collections listed and the cursors handed to list_get. *)
MaxDocs == 5
Item(i) == Doc(i, [k |-> IntV(i % 2)])
Collections == {[i \in 1..n |-> Item(i)] : n \in 0..MaxDocs}
Environments == {"20", "0", "2"}
OrderBys == {Null, ListV(<<>>), ListV(<<"_id">>), ListV(<<"-_id">>), ListV(<<"k", "-_id">>),
             ListV(<<" k">>), ListV(<<"_id", " ">>)}
Offsets == {Null, IntV(-1), IntV(0), IntV(1), IntV(3)}
Limits == {Null, IntV(-1), IntV(0), IntV(1), IntV(4)}
Cursors == {Null} \cup {Cursor(o, f, l) : o \in OrderBys, f \in Offsets, l \in Limits}

ListGet(cursor) ==
    /\ listing' = list_get(store, EmptyDict, cursor)
    /\ UNCHANGED <<max_results, travVars, pathVars, reqVars>>

(***************************************************************************)
(* The request wrappers of StorageApp.  Every route is registered as       *)
(* route(capture_unexpected_errors(using_resource(bearer_required(f)))),   *)
(* so the resource and its verbs are looked at before the Authorization    *)
(* header is.  A resource definition is a Python dict: a key the settings  *)
(* do not carry is not in its domain, and reading it raises KeyError.  The *)
(* RESOURCE schema declares no "soft_delete" key, so the normalized        *)
(* definition carries one only when the validator class handed to the app  *)
(* lets it through.  An outcome is a response, or an exception in flight.  *)
(***************************************************************************)
Range(s) == {s[i] : i \in DOMAIN s}
Now == 5    \* datetime.now(), between the two expiry dates of AuthTokens

Respond(code, status) ==
    [raised |-> "none", status |-> status, code |-> code, handler |-> "", filter |-> EmptyDict,
     body |-> <<>>]
Raised(exception) ==
    [raised |-> exception, status |-> 0, code |-> "", handler |-> "", filter |-> EmptyDict,
     body |-> <<>>]
Entered(handler, filter) ==
    [raised |-> "none", status |-> 0, code |-> "", handler |-> handler, filter |-> filter,
     body |-> <<>>]

(* The view function the URL map picks for "/<resource>" and a method. *)
Endpoint(method) ==
    CASE method = "GET" -> "resource_read"
      [] method = "POST" -> "resource_create"
      [] method = "PUT" -> "resource_replace"
      [] method = "PATCH" -> "resource_update"
      [] method = "DELETE" -> "resource_delete"

(* The view function the URL map picks for "/<resource>/<object_id>". *)
ItemEndpoint(method) ==
    CASE method = "GET" -> "item_resource_read"
      [] method = "PUT" -> "item_resource_replace"
      [] method = "PATCH" -> "item_resource_update"
      [] method = "DELETE" -> "item_resource_delete"

(* A request to the collection route carries object_id 0. *)
ViewFunction(req) ==
    IF req.object_id = 0 THEN Endpoint(req.method) ELSE ItemEndpoint(req.method)

(* str.lower() on the schemes that are sent. *)
Lower(scheme) ==
    CASE scheme = "Bearer" -> "bearer"
      [] scheme = "BEARER" -> "bearer"
      [] scheme = "Basic" -> "basic"
      [] OTHER -> scheme

(* bson.ObjectId(token) accepts 24 hexadecimal characters only. *)
IsObjectId(token) == token \in {"t1", "t2", "t3", "t4"}

FindToken_IgnoreExpiry(tokens, token, now) == token \in DOMAIN tokens

(* find_one({"_id": ..., "valid_until": {"$not": {"$lt": now}}}) *)
FindToken(tokens, token, now) ==
    /\ token \in DOMAIN tokens
    /\ ~(tokens[token].valid_until # Null /\ tokens[token].valid_until.n < now)

BearerRequired(tokens, authorization, handler, filter) ==
    IF authorization = <<>> THEN Respond("authorization:missing-header", 401)
    ELSE IF Len(authorization) # 2 THEN Respond("authorization:syntax-error", 400)
    ELSE IF Lower(authorization[1]) # "bearer" THEN Respond("authorization:bad-scheme", 400)
    ELSE IF ~IsObjectId(authorization[2]) THEN Raised("InvalidId")
    ELSE IF ~FindToken(tokens, authorization[2], Now) THEN Respond("authorization:not-found", 401)
    ELSE Entered(handler, filter)

SoftDeleteFilter(filter) ==
    [k \in DOMAIN filter \cup {"_deleted"} |-> IF k = "_deleted" THEN BoolV(FALSE) ELSE filter[k]]

UsingResource(s, req) ==
    IF req.resource \notin DOMAIN s.resources THEN Respond("not-found", 404)
    ELSE LET resource_definition == s.resources[req.resource]
             verbs == resource_definition["verbs"]
         IN  IF "soft_delete" \notin DOMAIN resource_definition THEN Raised("KeyError")
             ELSE LET filter == IF resource_definition["soft_delete"]
                                THEN SoftDeleteFilter(resource_definition["filter"])
                                ELSE resource_definition["filter"]
                  IN  IF ~verbs.all /\ req.method \notin Range(verbs.list)
                      THEN Respond("not-found", 404)
                      ELSE BearerRequired(s.tokens, req.authorization,
                                          ViewFunction(req), filter)

CaptureUnexpectedErrors_PassThrough(outcome) == outcome

(* try: return the wrapped call;  except: return {"code": "internal-error"}, 500 *)
CaptureUnexpectedErrors(outcome) ==
    IF outcome.raised # "none"
    THEN [Respond("internal-error", 500) EXCEPT !.handler = outcome.handler]
    ELSE outcome

(***************************************************************************)
(* The query-string helpers of the endpoints.  A query argument that is    *)
(* not sent is Null; offset, limit and order_by are sent as Arg(string),   *)
(* the projection as StrV(characters).                                     *)
(***************************************************************************)
Arg(s) == [t |-> "arg", s |-> s]
Get(dict, key) == IF key \in DOMAIN dict THEN dict[key] ELSE Null

_to_uint(value, minv) ==
    IF value = Null \/ ~PyInt(value.s).ok THEN minv ELSE Max(minv, PyInt(value.s).n)

(* str.split(",") on the order_by values that are sent. *)
SplitCommas(string) ==
    CASE string = "_id" -> <<"_id">>
      [] string = "-_id" -> <<"-_id">>
      [] string = "k,-_id" -> <<"k", "-_id">>
      [] string = "_id,,k" -> <<"_id", "", "k">>
      [] string = " k" -> <<" k">>

_parse_order_by(value) ==
    sort_criteria(IF value = Null \/ value.s = "" THEN ListV(<<>>) ELSE ListV(SplitCommas(value.s)))

(* _PROJECTION_RX: ^-?([a-zA-Z][a-zA-Z0-9_-]+)(,[a-zA-Z][a-zA-Z0-9_-]+)*$ *)
Letter(c) == c \in {"a", "b", "c", "d", "e", "k", "n", "o", "r", "w", "z"}
NameChar(c) == Letter(c) \/ c \in {"0", "1", "_", "-"}
RECURSIVE SplitOn(_, _)
SplitOn(chars, sep) ==
    IF \A i \in DOMAIN chars : chars[i] # sep THEN <<chars>>
    ELSE LET i == CHOOSE j \in DOMAIN chars :
                      chars[j] = sep /\ \A h \in 1..(j - 1) : chars[h] # sep
         IN  <<SubSeq(chars, 1, i - 1)>> \o SplitOn(SubSeq(chars, i + 1, Len(chars)), sep)
IsName(chars) ==
    /\ Len(chars) >= 2
    /\ Letter(chars[1])
    /\ \A i \in 2..Len(chars) : NameChar(chars[i])
ProjectionRxMatches(chars) ==
    LET names == IF chars # <<>> /\ chars[1] = "-" THEN Tail(chars) ELSE chars
        pieces == SplitOn(names, ",")
    IN  \A i \in DOMAIN pieces : IsName(pieces[i])

(* json.loads on the projection values that are sent. *)
JsonOne == <<"1">>
JsonInclude == <<"{", "\"", "k", "\"", ":", "1", "}">>
JsonExclude == <<"{", "\"", "k", "\"", ":", "0", "}">>
JsonMixed == <<"{", "\"", "k", "\"", ":", "1", ",", "\"", "a", "\"", ":", "0", "}">>
JsonLoads(chars) ==
    CASE chars = JsonOne -> [ok |-> TRUE, value |-> [kind |-> "int", items |-> <<>>]]
      [] chars = JsonInclude ->
            [ok |-> TRUE, value |-> [kind |-> "dict", items |-> <<[k |-> "k", v |-> TRUE]>>]]
      [] chars = JsonExclude ->
            [ok |-> TRUE, value |-> [kind |-> "dict", items |-> <<[k |-> "k", v |-> FALSE]>>]]
      [] chars = JsonMixed ->
            [ok |-> TRUE, value |-> [kind |-> "dict",
                                     items |-> <<[k |-> "k", v |-> TRUE], [k |-> "a", v |-> FALSE]>>]]
      [] OTHER -> [ok |-> FALSE, value |-> NoProjection]

(* {p: include for p in projection}: one key per distinct character. *)
RECURSIVE CharKeys(_, _)
CharKeys(chars, include) ==
    IF chars = <<>> THEN <<>>
    ELSE LET front == CharKeys(Front(chars), include)
         IN  IF \E i \in DOMAIN front : front[i].k = Last(chars) THEN front
             ELSE Append(front, [k |-> Last(chars), v |-> include])

Parsed(projection) == [raised |-> "none", projection |-> projection]
_parse_projection(projection) ==
    IF projection = Null THEN Parsed(NoProjection)
    ELSE IF projection.t # "str" THEN Parsed(projection)
    ELSE IF JsonLoads(projection.c).ok THEN Parsed(JsonLoads(projection.c).value)
    ELSE IF projection.c = <<>> THEN [raised |-> "TypeError", projection |-> NoProjection]
    ELSE IF projection.c = <<"*">> THEN Parsed(NoProjection)
    ELSE IF ~ProjectionRxMatches(projection.c)
    THEN [raised |-> "TypeError", projection |-> NoProjection]
    ELSE IF projection.c[1] = "-"
    THEN Parsed([kind |-> "dict", items |-> CharKeys(Tail(projection.c), FALSE)])
    ELSE Parsed([kind |-> "dict", items |-> CharKeys(projection.c, TRUE)])

(* x or y, for a query argument x: None and the empty string are falsy. *)
Or(value, default) ==
    IF value = Null \/ (value.t = "str" /\ value.c = <<>>) THEN default ELSE value

(***************************************************************************)
(* The projection of find() and find_one(): a projection that is no dict   *)
(* or list is refused by the driver (TypeError), one that mixes inclusions *)
(* and exclusions by the server (OperationFailure); an inclusion keeps the *)
(* named fields and _id, an exclusion drops the named fields.              *)
(***************************************************************************)
MongoProjected(document, projection) ==
    LET names == {projection.items[i].k : i \in DOMAIN projection.items}
        flags == {projection.items[i].v : i \in DOMAIN projection.items}
        fields == DOMAIN document.d
        keep(keys) == DictV([k \in keys |-> document.d[k]])
    IN  CASE projection.kind = "none" -> [raised |-> "none", document |-> document]
          [] projection.kind = "int" -> [raised |-> "TypeError", document |-> document]
          [] flags = {TRUE, FALSE} -> [raised |-> "OperationFailure", document |-> document]
          [] flags = {TRUE} ->
                [raised |-> "none", document |-> keep((fields \cap names) \cup {"_id"})]
          [] flags = {FALSE} -> [raised |-> "none", document |-> keep(fields \ names)]

(***************************************************************************)
(* The store calls of the endpoints, on the first document that matches.   *)
(***************************************************************************)
ProjectionError(projection) ==
    MongoProjected(Doc(0, EmptyDict), projection).raised

find_one(collection, filter, projection) ==
    LET found == Matching(collection, filter)
    IN  IF ProjectionError(projection) # "none"
        THEN [raised |-> ProjectionError(projection), element |-> Null]
        ELSE [raised |-> "none",
              element |-> IF found = <<>> THEN Null
                          ELSE MongoProjected(found[1], projection).document]

WithId(filter, object_id) ==
    [k \in DOMAIN filter \cup {"_id"} |-> IF k = "_id" THEN IntV(object_id) ELSE filter[k]]

IdOf(document) == document.d["_id"].n

(* update_one(filter, {"$set": fields}, upsert=False) *)
update_one(collection, filter, fields) ==
    LET found == Matching(collection, filter)
        old == found[1]
        new == DictV([k \in DOMAIN old.d \cup DOMAIN fields |->
                         IF k \in DOMAIN fields THEN fields[k] ELSE old.d[k]])
    IN  IF found = <<>> THEN [collection |-> collection, modified_count |-> 0]
        ELSE [collection |-> [collection EXCEPT ![IdOf(old)] = new],
              modified_count |-> IF new = old THEN 0 ELSE 1]

(* delete_one(filter) *)
delete_one(collection, filter) ==
    LET found == Matching(collection, filter)
    IN  IF found = <<>> THEN [collection |-> collection, deleted_count |-> 0]
        ELSE [collection |-> [i \in DOMAIN collection \ {IdOf(found[1])} |-> collection[i]],
              deleted_count |-> 1]

(* replace_one(filter, document, upsert=False): the document keeps its _id. *)
replace_one(collection, filter, document) ==
    LET found == Matching(collection, filter)
    IN  IF found = <<>> THEN collection
        ELSE [collection EXCEPT ![IdOf(found[1])] = Doc(IdOf(found[1]), document.d)]

(* insert_one(document): the driver gives the document a fresh _id. *)
insert_one(collection, document, inserted_id) ==
    [i \in DOMAIN collection \cup {inserted_id} |->
        IF i = inserted_id THEN Doc(inserted_id, document.d) ELSE collection[i]]

(***************************************************************************)
(* The resource's validator.  It is built from the "schema" of the         *)
(* resource definition; the schema of the resource here takes an integer   *)
(* "k", required, and a string "owner", and no other field, and it sets no *)
(* default: the normalized document is the document that was validated.    *)
(* A body that is no JSON object is not validated but refused with an      *)
(* exception, and so is the reading of request.json when the body is not   *)
(* JSON.                                                                   *)
(***************************************************************************)
NoBody == [is_json |-> FALSE, json |-> Null]
Json(value) == [is_json |-> TRUE, json |-> value]
SetOperator(fields) == [t |-> "operators", set |-> fields]

Validate(body) ==
    IF ~body.is_json
    THEN [raised |-> "UnsupportedMediaType", valid |-> FALSE, document |-> Null]
    ELSE IF body.json.t = "operators"        \* a mapping with the key "$set"
    THEN [raised |-> "none", valid |-> FALSE, document |-> Null]
    ELSE IF body.json.t # "dict"
    THEN [raised |-> "DocumentError", valid |-> FALSE, document |-> Null]
    ELSE [raised |-> "none",
          valid |-> /\ DOMAIN body.json.d \subseteq {"k", "owner"}
                    /\ "k" \in DOMAIN body.json.d /\ body.json.d["k"].t = "int"
                    /\ "owner" \in DOMAIN body.json.d => body.json.d["owner"].t = "str",
          document |-> body.json]

(***************************************************************************)
(* The endpoints.  Each gives the response of the view function and the    *)
(* collection as the view function leaves it.  The "~method" routes run    *)
(* handlers that the settings supply and are left out.                     *)
(***************************************************************************)
Served(answer, collection) == [response |-> answer, collection |-> collection]
Answer(handler, code, status, body) ==
    [Respond(code, status) EXCEPT !.handler = handler, !.body = body]
Failure(handler, exception) == [Raised(exception) EXCEPT !.handler = handler]
InsertedId(n) == MaxDocs + n

resource_read(resource_definition, collection, filter, req) ==
    LET handler == "resource_read"
        parsed_ == _parse_projection(Or(req.args.projection, Get(resource_definition, "list_projection")))
        projection == parsed_.projection
        offset == _to_uint(req.args.offset, 0)
        limit == _to_uint(req.args.limit, 1)
        order_by == _parse_order_by(IF req.args.order_by = Null
                                    THEN Get(resource_definition, "order_by")
                                    ELSE req.args.order_by)
        query == Find(collection, filter, order_by.sort, offset, limit)
        element == find_one(collection, filter, projection)
    IN  IF parsed_.raised # "none" THEN Served(Failure(handler, parsed_.raised), collection)
        ELSE IF resource_definition["type"] = "list"
        THEN IF order_by.raised # "none"
             THEN Served(Failure(handler, order_by.raised), collection)
             ELSE IF ProjectionError(projection) # "none"
             THEN Served(Failure(handler, ProjectionError(projection)), collection)
             ELSE Served(Answer(handler, "", 200,
                                [i \in DOMAIN query |-> MongoProjected(query[i], projection).document]),
                         collection)
        ELSE IF element.raised # "none" THEN Served(Failure(handler, element.raised), collection)
        ELSE IF element.element # Null
        THEN Served(Answer(handler, "", 200, <<element.element>>), collection)
        ELSE Served(Answer(handler, "not-found", 404, <<>>), collection)

resource_create(resource_definition, collection, filter, req) ==
    LET handler == "resource_create"
        validator == Validate(req.body)
    IN  IF ~req.body.is_json
        THEN Served(Answer(handler, "format:unexpected", 400, <<>>), collection)
        ELSE IF validator.raised # "none"
        THEN Served(Failure(handler, validator.raised), collection)
        ELSE IF ~validator.valid
        THEN Served(Answer(handler, "schema:invalid", 400, <<>>), collection)
        ELSE IF resource_definition["type"] # "list" /\ Matching(collection, filter) # <<>>
        THEN Served(Answer(handler, "already-exists", 409, <<>>), collection)
        ELSE Served(Answer(handler, "", 201, <<IntV(InsertedId(req.n))>>),
                    insert_one(collection, validator.document, InsertedId(req.n)))

Replace(handler, collection, lookup, filter, req) ==
    LET validator == Validate(req.body)
    IN  IF Matching(collection, lookup) = <<>>
        THEN Served(Answer(handler, "not-found", 404, <<>>), collection)
        ELSE IF validator.raised # "none"
        THEN Served(Failure(handler, validator.raised), collection)
        ELSE IF ~validator.valid
        THEN Served(Answer(handler, "schema:invalid", 400, <<>>), collection)
        ELSE Served(Answer(handler, "ok", 200, <<>>),
                    replace_one(collection, filter, validator.document))

Update(handler, collection, lookup, filter, req) ==
    IF Matching(collection, lookup) = <<>>
    THEN Served(Answer(handler, "not-found", 404, <<>>), collection)
    ELSE IF ~req.body.is_json THEN Served(Failure(handler, "UnsupportedMediaType"), collection)
    ELSE IF req.body.json.t # "operators" THEN Served(Failure(handler, "ValueError"), collection)
    ELSE Served(Answer(handler, "ok", 200, <<>>),
                update_one(collection, filter, req.body.json.set).collection)

Delete(handler, resource_definition, collection, filter) ==
    LET updated == update_one(collection, filter, [_deleted |-> BoolV(TRUE)])
        deleted == delete_one(collection, filter)
    IN  IF resource_definition["soft_delete"]
        THEN IF updated.modified_count # 0
             THEN Served(Answer(handler, "ok", 200, <<>>), updated.collection)
             ELSE Served(Answer(handler, "not-found", 404, <<>>), updated.collection)
        ELSE IF deleted.deleted_count # 0
             THEN Served(Answer(handler, "ok", 200, <<>>), deleted.collection)
             ELSE Served(Answer(handler, "not-found", 404, <<>>), deleted.collection)

item_resource_read(resource_definition, collection, filter, req) ==
    LET handler == "item_resource_read"
        parsed_ == _parse_projection(Or(req.args.projection, Get(resource_definition, "projection")))
        element == find_one(collection, WithId(filter, req.object_id), parsed_.projection)
    IN  IF parsed_.raised # "none" THEN Served(Failure(handler, parsed_.raised), collection)
        ELSE IF element.raised # "none" THEN Served(Failure(handler, element.raised), collection)
        ELSE IF element.element # Null
        THEN Served(Answer(handler, "", 200, <<element.element>>), collection)
        ELSE Served(Answer(handler, "not-found", 404, <<>>), collection)

ViewBody(handler, resource_definition, collection, filter, req) ==
    CASE handler = "resource_read" -> resource_read(resource_definition, collection, filter, req)
      [] handler = "resource_create" -> resource_create(resource_definition, collection, filter, req)
      [] handler = "resource_replace" -> Replace(handler, collection, filter, filter, req)
      [] handler = "resource_update" -> Update(handler, collection, filter, filter, req)
      [] handler = "resource_delete" -> Delete(handler, resource_definition, collection, filter)
      [] handler = "item_resource_read" -> item_resource_read(resource_definition, collection, filter, req)
      [] handler = "item_resource_replace" ->
            Replace(handler, collection, WithId(filter, req.object_id), filter, req)
      [] handler = "item_resource_update" ->
            Update(handler, collection, WithId(filter, req.object_id), filter, req)
      [] handler = "item_resource_delete" ->
            Delete(handler, resource_definition, collection, WithId(filter, req.object_id))

(* The endpoint inside its error boundary: the resource and bearer wrappers,
   then the view function when they let the request in. *)
Dispatch(s, collection, req) ==
    LET outcome == UsingResource(s, req)
    IN  IF outcome.handler = "" THEN Served(outcome, collection)
        ELSE ViewBody(outcome.handler, s.resources[req.resource], collection,
                      outcome.filter, req)

(* The whole decorated endpoint. *)
Serve(s, collection, req) ==
    LET served == Dispatch(s, collection, req)
    IN  Served(CaptureUnexpectedErrors(served.response), served.collection)

(* The requests and the settings the app is started with. *)
Methods == {"GET", "POST", "PUT", "PATCH", "DELETE"}
ResourceNames == {"items", "ghost"}
Authorizations ==
    { <<>>, <<"Bearer">>, <<"Basic", "t1">>, <<"Bearer", "t1">>, <<"bearer", "t2">>,
      <<"Bearer", "t3">>, <<"Bearer", "t4">>, <<"Bearer", "zz">>, <<"Bearer", "t1", "t2">> }
AuthTokens ==
    [t1 |-> [valid_until |-> IntV(9)], t2 |-> [valid_until |-> IntV(3)], t3 |-> [valid_until |-> Null]]
AllVerbs == [all |-> TRUE, list |-> <<>>]
Verbs(list) == [all |-> FALSE, list |-> list]
VerbChoices ==
    {AllVerbs, Verbs(<<"read">>), Verbs(<<"create", "read">>),
     Verbs(<<"read", "replace", "update", "delete">>)}
OwnedBy(owner) == [owner |-> StrV(owner)]
U1 == <<"u", "1">>
U2 == <<"u", "2">>
Filters == {EmptyDict, OwnedBy(U1)}
Definition(type, verbs) ==
    [type |-> type, db |-> "db", collection |-> "items", filter |-> EmptyDict, verbs |-> verbs]
WithFilter(definition, filter) == [definition EXCEPT !["filter"] = filter]
WithSoftDelete(definition, flag) ==
    [k \in DOMAIN definition \cup {"soft_delete"} |->
        IF k = "soft_delete" THEN flag ELSE definition[k]]
Definitions ==
    LET declared == {WithFilter(Definition(type, verbs), filter) :
                        type \in {"list", "simple"}, verbs \in VerbChoices, filter \in Filters}
    IN  declared \cup {WithSoftDelete(d, flag) : d \in declared, flag \in BOOLEAN}
Settings == {[resources |-> [r \in {"items"} |-> d], tokens |-> AuthTokens] : d \in Definitions}

NoArgs == [projection |-> Null, offset |-> Null, limit |-> Null, order_by |-> Null]
Req(resource, object_id, method, authorization, args, body) ==
    [sent |-> FALSE, n |-> 0, resource |-> resource, object_id |-> object_id, method |-> method,
     authorization |-> authorization, args |-> args, body |-> body]

NoSettings == [resources |-> [r \in {} |-> Null], tokens |-> AuthTokens]
NoRequest == Req("", 0, "", <<>>, NoArgs, NoBody)
NoResponse == Entered("", EmptyDict)

(* Stored documents: with and without the deletion marker, of two owners. *)
Stored(i, k, owner, deleted) ==
    Doc(i, [k |-> IntV(k), owner |-> StrV(owner), _deleted |-> BoolV(deleted)])
Mixed ==
    [i \in 1..4 |->
        CASE i = 1 -> Stored(1, 1, U1, FALSE)
          [] i = 2 -> Stored(2, 0, U2, FALSE)
          [] i = 3 -> Stored(3, 1, U1, TRUE)
          [] i = 4 -> Doc(4, [k |-> IntV(0)])]
Page == [i \in 1..MaxDocs |-> Stored(i, i % 2, U1, FALSE)]
Empty == [i \in {} |-> Null]
(* What resource_create stores: the validated document, no marker in it. *)
Created == [i \in {4} |-> Doc(4, [k |-> IntV(0), owner |-> StrV(U1)])]
Stores == {Empty, Mixed, Page, Created}

(* Every method and header on both resource names, and, with a token that is
   valid, the query arguments, the item ids and the bodies of each route. *)
Valid == <<"Bearer", "t1">>
ProjectionArgs ==
    {StrV(<<>>), StrV(<<"*">>), StrV(<<"k", "k">>), StrV(<<"-", "k", "k">>), StrV(<<"k">>),
     StrV(<<"k", "k", ",", ",", "a", "b">>), StrV(<<"o", "w", "n", "e", "r">>),
     StrV(<<"k", "k", ",", "a", "b">>), StrV(<<"-", "k", "k", ",", "a", "b">>),
     StrV(JsonOne), StrV(JsonInclude), StrV(JsonExclude), StrV(JsonMixed)}
OffsetArgs == {Null, Arg("0"), Arg("1"), Arg("3"), Arg("-1"), Arg("xx")}
LimitArgs == {Null, Arg("0"), Arg("2"), Arg("3"), Arg("xx")}
OrderByArgs == {Arg(""), Arg("_id"), Arg("-_id"), Arg("k,-_id"), Arg("_id,,k"), Arg(" k")}
ItemIds == {1, 3, 4, 9}
Bodies ==
    {NoBody, Json(DictV([k |-> IntV(7)])), Json(DictV([k |-> IntV(7), owner |-> StrV(U1)])),
     Json(DictV([z |-> IntV(7)])), Json(ListV(<<>>)),
     Json(SetOperator([k |-> IntV(8)])), Json(SetOperator([k |-> StrV(<<"x">>)]))}
Probes ==
    {Req(resource, 0, method, authorization, NoArgs, NoBody) :
        resource \in ResourceNames, method \in Methods, authorization \in Authorizations}
Reads ==
    {Req("items", 0, "GET", Valid, [NoArgs EXCEPT !.projection = projection], NoBody) :
        projection \in ProjectionArgs}
    \cup {Req("items", 0, "GET", Valid,
              [NoArgs EXCEPT !.offset = offset, !.limit = limit, !.order_by = order_by], NoBody) :
            offset \in OffsetArgs, limit \in LimitArgs, order_by \in {Null, Arg("-_id")}}
    \cup {Req("items", 0, "GET", Valid, [NoArgs EXCEPT !.order_by = order_by], NoBody) :
            order_by \in OrderByArgs}
    \cup {Req("items", object_id, "GET", Valid, [NoArgs EXCEPT !.projection = projection], NoBody) :
            object_id \in ItemIds, projection \in {Null, StrV(JsonInclude), StrV(<<"k">>)}}
Writes ==
    {Req("items", object_id, method, Valid, NoArgs, body) :
        object_id \in {0} \cup ItemIds, method \in {"PUT", "PATCH"}, body \in Bodies}
    \cup {Req("items", 0, "POST", Valid, NoArgs, body) : body \in Bodies}
    \cup {Req("items", object_id, "DELETE", Valid, NoArgs, NoBody) : object_id \in {0} \cup ItemIds}
Requests == Probes \cup Reads \cup Writes

(* A session: a few requests in a row from an authenticated client, the
   items it addresses being stored ones and the one its first create makes. *)
MaxRequests == 3
SessionIds == {1, 4, InsertedId(1)}
SessionRequests ==
    {Req("items", 0, "POST", Valid, NoArgs, Json(DictV([k |-> IntV(7), owner |-> StrV(U1)]))),
     Req("items", 0, "GET", Valid, NoArgs, NoBody),
     Req("items", 0, "DELETE", Valid, NoArgs, NoBody)}
    \cup {Req("items", object_id, method, Valid, NoArgs, NoBody) :
            object_id \in SessionIds, method \in {"GET", "DELETE"}}
SessionSettings ==
    {[resources |-> [r \in {"items"} |-> WithSoftDelete(Definition(type, AllVerbs), flag)],
      tokens |-> AuthTokens] : type \in {"list", "simple"}, flag \in BOOLEAN}

(***************************************************************************)
(* The engine calls made for a resource: the caller hands them the filter  *)
(* of the resource definition, the dict object itself.  list_item_get and  *)
(* list_item_put begin with                                                *)
(*     filter = filter or {};  filter['_id'] = object_id                   *)
(* and a dict that is not empty is truthy: the local name is then bound to *)
(* the caller's dict, and the assignment is made in that dict.             *)
(***************************************************************************)
FilterOrEmpty(filter, object_id) ==
    LET keyed == [k \in DOMAIN filter \cup {"_id"} |->
                     IF k = "_id" THEN IntV(object_id) ELSE filter[k]]
    IN  IF filter = EmptyDict
        THEN [local |-> keyed, given |-> filter]
        ELSE [local |-> keyed, given |-> keyed]

WithResourceFilter(s, resource, filter) ==
    [s EXCEPT !.resources[resource]["filter"] = filter]

EnginePaths == {<<>>, <<Key("k")>>}
EngineReplacement(path) ==
    IF path = <<>> THEN DictV([k |-> IntV(9), owner |-> StrV(U1)]) ELSE IntV(99)
EngineIds == {1, 9}

(* list_item_get(collection, object_id, filter=resource_definition["filter"], path=path) *)
ResourceItemGet(resource, id, path) ==
    LET filter == FilterOrEmpty(settings.resources[resource]["filter"], id)
        found == Matching(store, filter.local)
        element == IF found = <<>> THEN Null ELSE found[1]
        r == IF path = <<>> \/ element = Null THEN NotFoundResult(element)
             ELSE Traverse(element, path, NoProjection)
        start == [NoCall EXCEPT !.op = "get", !.id = id, !.path = path, !.element = element]
    IN  /\ call' = IF path = <<>>
                   THEN [start EXCEPT !.found = element # Null, !.value = element,
                                      !.document = element]
                   ELSE [start EXCEPT !.found = r.found, !.value = r.value, !.has = r.has,
                                      !.loc = r.loc, !.document = r.document,
                                      !.raised = r.raised]
        /\ pc' = "done"
        /\ settings' = WithResourceFilter(settings, resource, filter.given)
        /\ UNCHANGED <<store, request, response, pathVars, listVars>>

(* list_item_put(collection, object_id, replacement, filter=resource_definition["filter"],
   path=path), up to the setter call: the document is looked up by the filter
   with the _id in it. *)
ResourceItemPut(resource, id, replacement, path) ==
    LET filter == FilterOrEmpty(settings.resources[resource]["filter"], id)
        start == [NoCall EXCEPT !.op = "put", !.id = id, !.path = path,
                                !.replacement = replacement]
        put == IF Matching(store, filter.local) = <<>> /\ (path # <<>> \/ replacement.t = "dict")
               THEN [call |-> start, pc |-> "done", collection |-> store]
               ELSE PutRead(store, id, replacement, path)
    IN  /\ call' = put.call
        /\ pc' = put.pc
        /\ store' = put.collection
        /\ settings' = WithResourceFilter(settings, resource, filter.given)
        /\ UNCHANGED <<request, response, pathVars, listVars>>

(* list_get(collection, filter=resource_definition["filter"]) *)
ResourceList(resource) ==
    /\ listing' = list_get(store, settings.resources[resource]["filter"], Null)
    /\ UNCHANGED <<max_results, travVars, pathVars, reqVars>>

Request(req) ==
    /\ request' = [req EXCEPT !.sent = TRUE, !.n = request.n + 1]
    /\ response' = Serve(settings, store, request').response
    /\ store' = Serve(settings, store, request').collection
    /\ UNCHANGED <<settings, pc, call, pathVars, listVars>>

(***************************************************************************)
(* The specifications.  Each starts one component from its inputs and      *)
(* leaves the variables of the others at rest.                             *)
(***************************************************************************)
InitTraverse ==
    /\ store \in {[i \in StoredIds |-> IF i = 1 THEN d ELSE Other] : d \in Samples}
    /\ pc = "idle"
    /\ call = NoCall
    /\ paths_dsn = NoDsn /\ extra_path = <<>> /\ parsed = NoParse
    /\ settings = NoSettings /\ request = NoRequest /\ response = NoResponse
    /\ max_results = DefaultMaxResults /\ listing = NoListing

NextTraverse ==
    \/ /\ pc = "idle"
       /\ \E id \in RequestIds, path \in Paths, projection \in Projections :
             ItemGet(id, path, projection)
    \/ /\ pc = "idle"
       /\ \E id \in RequestIds, replacement \in Replacements, path \in Paths :
             ItemPutRead(id, replacement, path)
    \/ ItemPutWrite

SpecTraverse == InitTraverse /\ [][NextTraverse]_vars

InitPath ==
    /\ paths_dsn \in Dsns
    /\ extra_path = <<>>
    /\ parsed = NoParse
    /\ store = [i \in StoredIds |-> Other] /\ pc = "idle" /\ call = NoCall
    /\ settings = NoSettings /\ request = NoRequest /\ response = NoResponse
    /\ max_results = DefaultMaxResults /\ listing = NoListing

NextPath == \E path \in SeqsOf(Chunks, 0, MaxSegs) : Parse(path)

SpecPath == InitPath /\ [][NextPath]_vars

InitList ==
    /\ store \in Collections
    /\ max_results \in {MaxResultsOf(value) : value \in Environments}
    /\ listing = NoListing
    /\ pc = "idle" /\ call = NoCall
    /\ paths_dsn = NoDsn /\ extra_path = <<>> /\ parsed = NoParse
    /\ settings = NoSettings /\ request = NoRequest /\ response = NoResponse

NextList ==
    /\ ~listing.called
    /\ \E cursor \in Cursors : ListGet(cursor)

SpecList == InitList /\ [][NextList]_vars

InitRequest ==
    /\ settings \in Settings
    /\ store \in Stores
    /\ request = NoRequest
    /\ response = NoResponse
    /\ pc = "idle" /\ call = NoCall
    /\ paths_dsn = NoDsn /\ extra_path = <<>> /\ parsed = NoParse
    /\ max_results = DefaultMaxResults /\ listing = NoListing

NextRequest ==
    /\ ~request.sent
    /\ \E req \in Requests : Request(req)

SpecRequest == InitRequest /\ [][NextRequest]_vars

InitSession ==
    /\ settings \in SessionSettings
    /\ store \in {Empty, Mixed, Created}
    /\ request = NoRequest
    /\ response = NoResponse
    /\ pc = "idle" /\ call = NoCall
    /\ paths_dsn = NoDsn /\ extra_path = <<>> /\ parsed = NoParse
    /\ max_results = DefaultMaxResults /\ listing = NoListing

NextSession ==
    /\ request.n < MaxRequests
    /\ \E req \in SessionRequests : Request(req)

SpecSession == InitSession /\ [][NextSession]_vars

(***************************************************************************)
(* Two clients creating on a Simple resource at once.  Each request is     *)
(* served by a thread of its own: request, response and pc hold one entry  *)
(* for each client.  resource_create asks the collection whether a         *)
(* document matches (find_one, line 293) and inserts in a later call       *)
(* (insert_one, line 295); the other request may run between the two.      *)
(***************************************************************************)
Clients == {1, 2}
CreateBodies ==
    {Json(DictV([k |-> IntV(7)])), Json(DictV([k |-> IntV(7), owner |-> StrV(U1)])),
     Json(DictV([k |-> IntV(8), owner |-> StrV(U2)]))}
CreateRequest(c, body) ==
    [Req("items", 0, "POST", Valid, NoArgs, body) EXCEPT !.sent = TRUE, !.n = c]

(* Up to the find_one of line 293: every answer but the 201 is given here. *)
CreateCheck(c, body) ==
    LET req == CreateRequest(c, body)
        served == Serve(settings, store, req)
        passes == served.response.handler = "resource_create" /\ served.response.status = 201
    IN  /\ pc[c] = "idle"
        /\ request' = [request EXCEPT ![c] = req]
        /\ pc' = [pc EXCEPT ![c] = IF passes THEN "checked" ELSE "done"]
        /\ response' = [response EXCEPT ![c] = IF passes THEN NoResponse ELSE served.response]
        /\ UNCHANGED <<store, settings, call, pathVars, listVars>>

(* Lines 295-296: insert_one(validator.document) and the 201 answer. *)
CreateInsert(c) ==
    /\ pc[c] = "checked"
    /\ store' = insert_one(store, Validate(request[c].body).document, InsertedId(c))
    /\ response' = [response EXCEPT ![c] =
                        Answer("resource_create", "", 201, <<IntV(InsertedId(c))>>)]
    /\ pc' = [pc EXCEPT ![c] = "done"]
    /\ UNCHANGED <<request, settings, call, pathVars, listVars>>

InitCreate ==
    /\ settings \in {[resources |-> [r \in {"items"} |->
                                        WithSoftDelete(WithFilter(Definition("simple", AllVerbs), filter),
                                                       flag)],
                      tokens |-> AuthTokens] : filter \in Filters, flag \in BOOLEAN}
    /\ store = Empty
    /\ request = [c \in Clients |-> NoRequest]
    /\ response = [c \in Clients |-> NoResponse]
    /\ pc = [c \in Clients |-> "idle"]
    /\ call = NoCall
    /\ paths_dsn = NoDsn /\ extra_path = <<>> /\ parsed = NoParse
    /\ max_results = DefaultMaxResults /\ listing = NoListing

NextCreate ==
    \E c \in Clients :
        \/ /\ pc[c] = "idle"
           /\ \E body \in CreateBodies : CreateCheck(c, body)
        \/ CreateInsert(c)

SpecCreate == InitCreate /\ [][NextCreate]_vars

InitConfig ==
    /\ settings \in {[resources |-> [r \in {"items"} |->
                                        WithSoftDelete(WithFilter(Definition("list", AllVerbs), filter),
                                                       FALSE)],
                      tokens |-> AuthTokens] : filter \in Filters}
    /\ store = Mixed
    /\ request = NoRequest
    /\ response = NoResponse
    /\ pc = "idle" /\ call = NoCall
    /\ paths_dsn = NoDsn /\ extra_path = <<>> /\ parsed = NoParse
    /\ max_results = DefaultMaxResults /\ listing = NoListing

NextConfig ==
    \/ /\ pc \in {"idle", "done"}
       /\ \E id \in EngineIds, path \in EnginePaths : ResourceItemGet("items", id, path)
    \/ /\ pc \in {"idle", "done"}
       /\ \E id \in EngineIds, path \in EnginePaths :
             ResourceItemPut("items", id, EngineReplacement(path), path)
    \/ ItemPutWrite
    \/ /\ pc \in {"idle", "done"}
       /\ ResourceList("items")
    \/ /\ pc \in {"idle", "done"}
       /\ ~request.sent
       /\ \E req \in SessionRequests : Request(req)

SpecConfig == InitConfig /\ [][NextConfig]_vars

InitRace ==
    /\ store = [i \in StoredIds |-> IF i = 1 THEN RaceDocument ELSE Other]
    /\ pc = [w \in Writers |-> "idle"]
    /\ call = [w \in Writers |-> NoCall]
    /\ paths_dsn = NoDsn /\ extra_path = <<>> /\ parsed = NoParse
    /\ settings = NoSettings /\ request = NoRequest /\ response = NoResponse
    /\ max_results = DefaultMaxResults /\ listing = NoListing

NextRace ==
    \E w \in Writers :
        \/ /\ pc[w] = "idle"
           /\ \E path \in RacePaths, replacement \in Replacements :
                 WriterPutRead(w, 1, replacement, path)
        \/ WriterPutWrite(w)

SpecRace == InitRace /\ [][NextRace]_vars

(***************************************************************************)
(* What the claims about traversal speak of, stated on the document model  *)
(* and not through the engine's operators: the steps of a path that cannot *)
(* be taken, the value a path addresses, and a document with the addressed *)
(* location replaced.                                                      *)
(***************************************************************************)
InRange(n, len) == (n >= 0 /\ n < len) \/ (n < 0 /\ -n <= len)

StepMisses(value, s) ==
    \/ value = Null                                                 \* null intermediate value
    \/ s.k = "key" /\ value.t = "dict" /\ s.s \notin DOMAIN value.d  \* field that does not exist
    \/ s.k = "idx" /\ value.t = "list" /\ ~InRange(s.n, Len(value.l)) \* index out of range
    \/ s.k = "idx" /\ value.t = "str" /\ ~InRange(s.n, Len(value.c))
    \/ s.k = "key" /\ value.t \in {"list", "str", "int"}            \* subscript does not fit
    \/ s.k = "idx" /\ value.t \in {"dict", "int"}

Child(value, s) ==
    CASE s.k = "none" -> value
      [] value.t = "dict" -> value.d[s.s]
      [] value.t = "list" -> value.l[IF s.n < 0 THEN Len(value.l) + s.n + 1 ELSE s.n + 1]
      [] value.t = "str" -> StrV(<<value.c[IF s.n < 0 THEN Len(value.c) + s.n + 1 ELSE s.n + 1]>>)

RECURSIVE Misses(_, _)
Misses(value, path) ==
    /\ path # <<>>
    /\ \/ StepMisses(value, Head(path))
       \/ Misses(Child(value, Head(path)), Tail(path))

RECURSIVE Addressed(_, _)
Addressed(value, path) ==
    IF path = <<>> THEN value ELSE Addressed(Child(value, Head(path)), Tail(path))

RECURSIVE Replaced(_, _, _)
Replaced(value, path, v) ==
    IF path = <<>> THEN v
    ELSE LET s == Head(path)
             sub == Replaced(Child(value, s), Tail(path), v)
         IN  CASE s.k = "none" -> sub
               [] value.t = "dict" -> DictV([value.d EXCEPT ![s.s] = sub])
               [] value.t = "list" ->
                    ListV([value.l EXCEPT ![IF s.n < 0 THEN Len(value.l) + s.n + 1 ELSE s.n + 1] = sub])
               [] OTHER -> value

(* The container holding the addressed location: the value before the last
   subscript of the path that is not None. *)
RECURSIVE Holder(_, _)
Holder(value, path) ==
    IF \A i \in 2..Len(path) : path[i] = NoneSub THEN value
    ELSE Holder(Child(value, Head(path)), Tail(path))

Dereferences(c) ==
    /\ c.path # <<>>
    /\ c.element # Null
    /\ ~Misses(c.element, c.path)

OthersUnchanged == \A i \in DOMAIN store \ {call.id} : store[i] = Other

(***************************************************************************)
(* C1. Traversal write-back fidelity: for any stored document and any path *)
(* all of whose dereferences succeed, the traversal of list_item_put finds *)
(* the addressed value and, once its setter has been invoked with the      *)
(* replacement v, the call has succeeded and the document stored under the *)
(* root's _id is the original with exactly the addressed location replaced *)
(* by v, every other document unchanged.                                   *)
(***************************************************************************)
C1_WriteBackFidelity ==
    (call.op = "put" /\ Dereferences(call) /\ \E i \in DOMAIN call.path : call.path[i] # NoneSub) =>
        /\ pc \in {"traversed", "done"}
        /\ call.found /\ call.has
        /\ call.value = Addressed(call.element, call.path)
        /\ pc = "done" =>
              /\ call.raised = "none" /\ call.ok
              /\ store[call.id] = Replaced(call.element, call.path, call.replacement)
              /\ OthersUnchanged

(* The same, for the paths whose addressed location lies in a dict or a list
   (a character of a string is addressed by no such path). *)
WriteBackFidelityInContainers ==
    (/\ call.op = "put" /\ Dereferences(call)
     /\ \E i \in DOMAIN call.path : call.path[i] # NoneSub
     /\ Holder(call.element, call.path).t \in {"dict", "list"}) =>
        /\ pc \in {"traversed", "done"}
        /\ call.found /\ call.has
        /\ call.value = Addressed(call.element, call.path)
        /\ pc = "done" =>
              /\ call.raised = "none" /\ call.ok
              /\ store[call.id] = Replaced(call.element, call.path, call.replacement)
              /\ OthersUnchanged

WriteBackExample ==
    /\ pc = "done" /\ call.op = "put"
    /\ call.path = <<Key("a"), Key("b"), Idx(1), Key("c")>>
    /\ call.value = IntV(2) /\ call.replacement = IntV(99)
    /\ store[1] = Doc(1, [a |-> DictV([b |-> ListV(<<DictV([c |-> IntV(1)]), DictV([c |-> IntV(99)])>>)])])

(***************************************************************************)
(* C2. Missing path yields not-found, never a crash: when a step of the    *)
(* path meets a null intermediate value, a field that does not exist, an   *)
(* index out of range or a subscript that does not fit the value, the call *)
(* (get or put) reports not found with no value and no setter, raises      *)
(* nothing, and the collection is as it was.                               *)
(***************************************************************************)
C2_MissingPathNotFound ==
    (call.op \in {"get", "put"} /\ call.element # Null /\ Misses(call.element, call.path)) =>
        /\ pc = "done"
        /\ ~call.found /\ call.value = Null /\ ~call.has /\ ~call.ok
        /\ call.raised = "none"
        /\ store[call.id] = call.element
        /\ OthersUnchanged

C2_Witness ==
    /\ pc = "done" /\ call.op = "put" /\ ~call.found
    /\ call.element = Doc(1, [a |-> StrV(<<"x", "y">>), b |-> Null, c |-> ListV(<<IntV(1), StrV(<<"z">>)>>)])
    /\ call.path = <<Key("c"), Idx(1), Idx(1)>>

(***************************************************************************)
(* Projections of the claims.                                              *)
(***************************************************************************)
FlagsOf(p) == {p.items[i].v : i \in DOMAIN p.items}
NamesOf(p) == {p.items[i].k : i \in DOMAIN p.items}
IsInclusion(p) ==
    /\ p.kind \in {"list", "dict"} /\ p.items # <<>>
    /\ p.kind = "dict" => FlagsOf(p) = {TRUE}
IsExclusion(p) == p.kind = "dict" /\ p.items # <<>> /\ FlagsOf(p) = {FALSE}
IsMixed(p) == p.kind = "dict" /\ FlagsOf(p) = {TRUE, FALSE}

(***************************************************************************)
(* C7. Inclusion projection: for a dict-valued addressed value D and a     *)
(* non-empty inclusion projection over the names S (a list, or a dict with *)
(* all flags true), list_item_get returns a dict with exactly the keys of  *)
(* S, each mapped to D's value for it, or to null when D has no such key.  *)
(***************************************************************************)
C7_InclusionProjection ==
    (/\ call.op = "get" /\ Dereferences(call)
     /\ Addressed(call.element, call.path).t = "dict"
     /\ IsInclusion(call.projection)) =>
        LET D == Addressed(call.element, call.path).d
            S == NamesOf(call.projection)
        IN  /\ call.found /\ call.raised = "none"
            /\ call.value.t = "dict"
            /\ DOMAIN call.value.d = S
            /\ \A k \in S : call.value.d[k] = IF k \in DOMAIN D THEN D[k] ELSE Null

C7_Witness ==
    /\ call.op = "get" /\ call.path = <<Key("a")>>
    /\ call.projection.kind = "list" /\ NamesOf(call.projection) = {"b", "z"}
    /\ call.value = DictV([b |-> IntV(1), z |-> Null])

(***************************************************************************)
(* C8. Exclusion complement: for a dict-valued addressed value D and a     *)
(* non-empty exclusion projection {k: false for k in S}, list_item_get     *)
(* returns D without the keys of S that D has, every other key and value   *)
(* unchanged.                                                              *)
(***************************************************************************)
C8_ExclusionComplement ==
    (/\ call.op = "get" /\ Dereferences(call)
     /\ Addressed(call.element, call.path).t = "dict"
     /\ IsExclusion(call.projection)) =>
        LET D == Addressed(call.element, call.path).d
            S == NamesOf(call.projection)
        IN  /\ call.found /\ call.raised = "none"
            /\ call.value.t = "dict"
            /\ DOMAIN call.value.d = DOMAIN D \ (S \cap DOMAIN D)
            /\ \A k \in DOMAIN call.value.d : call.value.d[k] = D[k]

C8_Witness ==
    /\ call.op = "get" /\ call.path = <<Key("a")>>
    /\ IsExclusion(call.projection) /\ NamesOf(call.projection) = {"b", "z"}
    /\ call.value = DictV([c |-> StrV(<<"x", "y">>)])

(***************************************************************************)
(* C9 as claimed. Projection conflict: a projection dict with at least one *)
(* true and one false flag always fails with the projection-conflict error *)
(* (ValueError) and returns no value, whatever the order of its keys and   *)
(* whatever the addressed value is: a dict, a non-dict or null.            *)
(***************************************************************************)
C9_ConflictWhateverTheValue ==
    (call.op = "get" /\ Dereferences(call) /\ IsMixed(call.projection)) =>
        /\ call.raised = "ValueError"
        /\ ~call.found /\ call.value = Null

(***************************************************************************)
(* C9 as amended. A projection dict with at least one true and one false   *)
(* flag fails with the projection-conflict error (ValueError), whatever    *)
(* the order of its keys, when the addressed value is a dict; when the     *)
(* addressed value is null or not a dict the projection is ignored, no     *)
(* error is raised and the addressed value itself is returned.             *)
(***************************************************************************)
C9_ConflictOnDict ==
    (call.op = "get" /\ Dereferences(call) /\ IsMixed(call.projection)) =>
        LET D == Addressed(call.element, call.path)
        IN  IF D.t = "dict"
            THEN call.raised = "ValueError" /\ ~call.found /\ call.value = Null
            ELSE call.raised = "none" /\ call.found /\ call.value = D

C9_Witness ==
    /\ call.op = "get" /\ call.raised = "ValueError"
    /\ IsMixed(call.projection) /\ call.projection.items[1].v = FALSE
    /\ Addressed(call.element, call.path).t = "dict"

(***************************************************************************)
(* What the claims about path resolution speak of.                         *)
(***************************************************************************)
Named(i) == extra_path[i] \in DOMAIN paths_dsn
PartialAt(i) == paths_dsn[extra_path[i]]
(* Every segment before position i names a Scalar-typed partial. *)
ScalarPrefix(i) == \A j \in 1..(i - 1) : Named(j) /\ PartialAt(j).type = "scalar"
(* Position i names a List- or Dict-typed partial, after Scalar ones only. *)
Subscripted(i) ==
    /\ i \in DOMAIN extra_path /\ ScalarPrefix(i)
    /\ Named(i) /\ PartialAt(i).type \in {"list", "dict"}
IsInteger(chunk) == chunk \in {"0", "1", "-1"}
IntegerOf(chunk) == CASE chunk = "0" -> 0 [] chunk = "1" -> 1 [] chunk = "-1" -> -1
FieldsOf(n) == [j \in 1..n |-> Key(PartialAt(j).field)]

(***************************************************************************)
(* C3. Child scope: once a segment has matched a partial, and its          *)
(* subscript has been consumed if the partial is List- or Dict-typed, the  *)
(* next segment is looked up only in the matched partial's children: when  *)
(* it names a (Scalar) child the path resolves and ends with that child's  *)
(* field, and when it names a top-level partial that is no child of the    *)
(* matched partial the resolution fails.                                   *)
(***************************************************************************)
C3_ChildScope ==
    (/\ parsed.called /\ extra_path # <<>> /\ Named(1)
     /\ Len(extra_path) = (IF PartialAt(1).type = "scalar" THEN 2 ELSE 3)
     /\ PartialAt(1).type = "list" => IsInteger(extra_path[2])) =>
        LET children == PartialAt(1).children
            next == Last(extra_path)
        IN  /\ (next \in DOMAIN children /\ children[next].type = "scalar") =>
                  /\ parsed.ok
                  /\ Len(parsed.result) = Len(extra_path)
                  /\ Last(parsed.result) = Key(children[next].field)
            /\ (next \notin DOMAIN children /\ next \in DOMAIN paths_dsn) => ~parsed.ok

(***************************************************************************)
(* C4 as claimed. After a segment naming a List- or Dict-typed partial one *)
(* further segment is consumed as its subscript (an integer for List, the  *)
(* raw string for Dict) and attached to that step, the segment after it    *)
(* being a name again; a segment sequence that ends right after such a     *)
(* segment fails to resolve, for List and Dict alike.                      *)
(***************************************************************************)
SubscriptConsumed(i) ==
    /\ (Len(extra_path) > i /\ parsed.ok) =>
          /\ parsed.result[i] = Key(PartialAt(i).field)
          /\ parsed.result[i + 1] = IF PartialAt(i).type = "list"
                                    THEN Idx(IntegerOf(extra_path[i + 1]))
                                    ELSE Key(extra_path[i + 1])
          /\ Len(extra_path) > i + 1 =>
                Named(i + 2) /\ parsed.result[i + 2] = Key(PartialAt(i + 2).field)
    /\ (Len(extra_path) > i /\ PartialAt(i).type = "list" /\ ~IsInteger(extra_path[i + 1])) =>
          parsed = Failed

C6_EmptyPathSucceeds ==
    parsed.called =>
        /\ extra_path = <<>> => parsed.ok /\ parsed.result = <<>>
        /\ (DOMAIN paths_dsn = {} /\ extra_path # <<>>) => ~parsed.ok

(***************************************************************************)
(* C6 as amended. On an empty segment sequence parse_path succeeds, with   *)
(* no steps, exactly when the DSN is empty: with a non-empty DSN an empty  *)
(* segment sequence fails (a path should be present).  On an empty DSN     *)
(* every non-empty segment sequence fails.                                 *)
(***************************************************************************)
C6_EmptyPathOnEmptyDsnOnly ==
    parsed.called =>
        /\ extra_path = <<>> =>
              /\ parsed.ok <=> DOMAIN paths_dsn = {}
              /\ parsed.none /\ parsed.result = <<>>
        /\ (DOMAIN paths_dsn = {} /\ extra_path # <<>>) => parsed = Failed

C6_Witness ==
    /\ parsed.called /\ extra_path = <<>> /\ DOMAIN paths_dsn # {}
    /\ parsed = Failed

(***************************************************************************)
(* What the claim about permissions speaks of: the verbs an HTTP method on *)
(* a resource may stand for, and a request whose verb the resource's       *)
(* definition does not permit.                                             *)
(***************************************************************************)
VerbsFor(method) ==
    CASE method = "GET" -> {"read", "list"}
      [] method = "POST" -> {"create"}
      [] method = "PUT" -> {"replace"}
      [] method = "PATCH" -> {"update"}
      [] method = "DELETE" -> {"delete"}
NotPermitted(definition, method) ==
    /\ ~definition["verbs"].all
    /\ VerbsFor(method) \cap Range(definition["verbs"].list) = {}
Unconfigured == "ghost"

(***************************************************************************)
(* C10. Permission non-leakage: a request whose verb is not permitted on a *)
(* configured resource gets status 404 with body code not-found, which is  *)
(* the very outcome of the same request (same method, same headers) on a   *)
(* resource name that is not configured.                                   *)
(***************************************************************************)
C10_PermissionNonLeakage ==
    (/\ request.sent
     /\ request.resource \in DOMAIN settings.resources
     /\ NotPermitted(settings.resources[request.resource], request.method)) =>
        /\ response = Respond("not-found", 404)
        /\ response = CaptureUnexpectedErrors(
                          UsingResource(settings, [request EXCEPT !.resource = Unconfigured]))

(***************************************************************************)
(* What the claims about requests speak of: a request that gets through    *)
(* resource resolution whatever its verb, an Authorization header that     *)
(* authenticates, and the headers the unauthorized outcome is for.         *)
(***************************************************************************)
Configured == request.resource \in DOMAIN settings.resources
Resolved == settings.resources[request.resource]
CarriesSoftDelete == Configured /\ "soft_delete" \in DOMAIN Resolved
IsBearer(scheme) == scheme \in {"bearer", "Bearer", "BEARER"}
ValidToken(token) ==
    /\ token \in DOMAIN settings.tokens
    /\ \/ settings.tokens[token].valid_until = Null
       \/ settings.tokens[token].valid_until.n >= Now
Authenticates(authorization) ==
    /\ Len(authorization) = 2
    /\ IsBearer(authorization[1])
    /\ ValidToken(authorization[2])

(***************************************************************************)
(* C11. Verb verification: on a resource configured with an explicit verb  *)
(* list, an authenticated request performing an operation named in the     *)
(* list passes verb verification and reaches its handler, and a request    *)
(* whose operation is not named in the list is answered not-found.         *)
(***************************************************************************)
C11_VerbVerification ==
    (/\ request.sent /\ CarriesSoftDelete
     /\ ~Resolved["verbs"].all
     /\ Authenticates(request.authorization)) =>
        IF NotPermitted(Resolved, request.method)
        THEN response = Respond("not-found", 404)
        ELSE response.handler = ViewFunction(request)

(***************************************************************************)
(* C14. Authentication precedes resource resolution: a request whose       *)
(* Authorization header has a scheme other than bearer is answered with    *)
(* the bad-scheme code, whether or not the named resource is configured.   *)
(***************************************************************************)
C14_AuthenticationFirst ==
    (/\ request.sent
     /\ Len(request.authorization) = 2
     /\ ~IsBearer(request.authorization[1])) =>
        response = Respond("authorization:bad-scheme", 400)

(***************************************************************************)
(* C17. Authentication gate: the handler of an endpoint runs only when the *)
(* Authorization header has the form "<scheme> <token>" with the scheme    *)
(* bearer in any letter case and a stored token of that id whose expiry is *)
(* absent or not in the past; for every other request no handler is        *)
(* entered and the resource's collection is left as it was.                *)
(***************************************************************************)
C17_AuthenticationGate ==
    [][(request'.sent /\ ~Authenticates(request'.authorization)) =>
            /\ response'.handler = ""
            /\ store' = store]_vars

C17_Witness ==
    /\ request.sent /\ CarriesSoftDelete /\ Resolved["verbs"].all
    /\ request.authorization = <<"bearer", "t2">>
    /\ response = Respond("authorization:not-found", 401)

(***************************************************************************)
(* C18. A request that gets to authentication and whose bearer token is    *)
(* missing, is not a well-formed token identifier, names no stored token   *)
(* or names an expired token is answered with the unauthorized outcome     *)
(* (status 401), never with internal-error.                                *)
(***************************************************************************)
C18_BadTokenUnauthorized ==
    (/\ request.sent /\ CarriesSoftDelete /\ Resolved["verbs"].all
     /\ \/ request.authorization = <<>>
        \/ /\ Len(request.authorization) = 2
           /\ IsBearer(request.authorization[1])
           /\ ~ValidToken(request.authorization[2])) =>
        /\ response.status = 401
        /\ response.code # "internal-error"

(***************************************************************************)
(* What the claims about the endpoints speak of: the filter the handler is *)
(* given, a document that carries no deletion marker set to true, a body   *)
(* the resource's schema accepts, and a request that passes resolution,    *)
(* verb verification and authentication.                                   *)
(***************************************************************************)
StaticFilter == Resolved["filter"]
Marked(document) ==
    "_deleted" \in DOMAIN document.d /\ document.d["_deleted"] = BoolV(TRUE)
Present(collection) ==
    {i \in DOMAIN collection :
        Matches(collection[i], StaticFilter) /\ ~Marked(collection[i])}
ValidBody(body) == Validate(body).raised = "none" /\ Validate(body).valid
Admitted(req) ==
    /\ req.sent /\ req.resource \in DOMAIN settings.resources
    /\ "soft_delete" \in DOMAIN settings.resources[req.resource]
    /\ settings.resources[req.resource]["verbs"].all
    /\ Authenticates(req.authorization)

(***************************************************************************)
(* C12. Simple-resource create conflict: a create request with a body the  *)
(* schema accepts, on a Simple resource for which at least one stored      *)
(* document matches the resource's static filter (and is not marked as     *)
(* deleted), is answered conflict (409) and the collection is unchanged.   *)
(***************************************************************************)
C12_CreateConflict ==
    [][(/\ request'.sent /\ request'.resource \in DOMAIN settings.resources
        /\ settings.resources[request'.resource]["type"] = "simple"
        /\ request'.method = "POST" /\ request'.object_id = 0
        /\ Authenticates(request'.authorization)
        /\ ValidBody(request'.body)
        /\ \E i \in DOMAIN store :
              /\ Matches(store[i], settings.resources[request'.resource]["filter"])
              /\ ~Marked(store[i])) =>
            /\ response'.status = 409
            /\ store' = store]_vars

(***************************************************************************)
(* C12, inside the handler: once resource_create is entered on a Simple    *)
(* resource with a body the schema accepts and some stored document        *)
(* matches the filter the handler is given, the answer is already-exists   *)
(* (409) and the collection is unchanged.                                  *)
(***************************************************************************)
C12_ConflictOnceEntered ==
    [][(/\ Admitted(request')
        /\ settings.resources[request'.resource]["type"] = "simple"
        /\ request'.method = "POST" /\ request'.object_id = 0
        /\ ValidBody(request'.body)
        /\ Matching(store, UsingResource(settings, request').filter) # <<>>) =>
            /\ response'.status = 409 /\ response'.code = "already-exists"
            /\ store' = store]_vars

(***************************************************************************)
(* C13. Soft delete: on a resource configured with soft delete, deleting   *)
(* an existing item sets its deletion marker to true and keeps the         *)
(* document in the store; every read or list request after that omits the  *)
(* document, the item read being answered not-found; and a delete of an    *)
(* item already marked is answered not-found and changes nothing.          *)
(***************************************************************************)
SoftDeleted(req) == Admitted(req) /\ settings.resources[req.resource]["soft_delete"]
Existing(collection, req) ==
    /\ req.object_id \in DOMAIN collection
    /\ Matches(collection[req.object_id], settings.resources[req.resource]["filter"])
    /\ ~Marked(collection[req.object_id])
Omits(answer, document) == \A i \in DOMAIN answer.body : answer.body[i] # document
C13_SoftDelete ==
    [][SoftDeleted(request') =>
          /\ (request'.method = "DELETE" /\ Existing(store, request')) =>
                /\ DOMAIN store' = DOMAIN store
                /\ Marked(store'[request'.object_id])
          /\ request'.method = "GET" =>
                \A i \in DOMAIN store : Marked(store[i]) =>
                    /\ Omits(response', store[i])
                    /\ request'.object_id = i => response'.status = 404
          /\ (/\ request'.method = "DELETE" /\ request'.object_id \in DOMAIN store
              /\ Marked(store[request'.object_id])) =>
                /\ response'.status = 404
                /\ store' = store]_vars

(***************************************************************************)
(* C13, for the documents that carry the marker: the same, for an item     *)
(* that is stored with its deletion marker set to false.                   *)
(***************************************************************************)
CarriesMarker(collection, req) ==
    /\ Existing(collection, req)
    /\ "_deleted" \in DOMAIN collection[req.object_id].d
C13_SoftDeleteOfMarkerCarriers ==
    [][SoftDeleted(request') =>
          /\ (request'.method = "DELETE" /\ CarriesMarker(store, request')) =>
                /\ response'.status = 200
                /\ DOMAIN store' = DOMAIN store
                /\ Marked(store'[request'.object_id])
          /\ request'.method = "GET" =>
                \A i \in DOMAIN store : Marked(store[i]) =>
                    /\ Omits(response', store[i])
                    /\ request'.object_id = i => response'.status = 404
          /\ (/\ request'.method = "DELETE" /\ request'.object_id \in DOMAIN store
              /\ Marked(store[request'.object_id])) =>
                /\ response'.status = 404
                /\ store' = store]_vars

(***************************************************************************)
(* C20. A read or list request that gets to its handler with a malformed   *)
(* projection argument (empty, or neither JSON nor a comma list of names   *)
(* nor "*") or a malformed order_by argument (an empty field name in it)   *)
(* is answered bad-request, not internal-error, and with no documents.     *)
(***************************************************************************)
MalformedProjection(projection) ==
    /\ projection # Null
    /\ \/ projection.c = <<>>
       \/ /\ ~JsonLoads(projection.c).ok
          /\ projection.c # <<"*">>
          /\ ~ProjectionRxMatches(projection.c)
MalformedOrderBy(order_by) ==
    /\ order_by # Null /\ order_by.s # ""
    /\ \E i \in DOMAIN SplitCommas(order_by.s) : SplitCommas(order_by.s)[i] \in {"", " "}
C20_MalformedQueryIsBadRequest ==
    (/\ Admitted(request) /\ request.method = "GET"
     /\ \/ MalformedProjection(request.args.projection)
        \/ request.object_id = 0 /\ Resolved["type"] = "list"
              /\ MalformedOrderBy(request.args.order_by)) =>
        /\ response.status = 400
        /\ response.code # "internal-error"
        /\ response.body = <<>>

(***************************************************************************)
(* C19. Error boundary: no request on a registered endpoint ends with an   *)
(* exception; whenever resource resolution, authentication, a store call   *)
(* or the handler body raises, the response is the payload                 *)
(* {code: internal-error} with status 500.                                 *)
(***************************************************************************)
C19_ErrorBoundary ==
    [][request'.sent =>
          /\ response'.raised = "none"
          /\ Dispatch(settings, store, request').response.raised # "none" =>
                (response'.status = 500 /\ response'.code = "internal-error")]_vars

C19_Witness ==
    /\ request.sent /\ CarriesSoftDelete
    /\ request.args.projection = StrV(<<"k">>)
    /\ response.handler = "resource_read"
    /\ response.status = 500 /\ response.code = "internal-error"

(***************************************************************************)
(* C21. Projection parameter parsing: a projection argument that is no     *)
(* JSON and is a comma-separated list of field names parses to an          *)
(* inclusion projection whose keys are exactly those names; the same list  *)
(* after a "-" parses to an exclusion projection with exactly those names  *)
(* as keys; "*" parses to no projection.                                   *)
(***************************************************************************)
FieldName(chars) ==
    CASE chars = <<"k", "k">> -> "kk"
      [] chars = <<"a", "b">> -> "ab"
      [] chars = <<"o", "w", "n", "e", "r">> -> "owner"
      [] OTHER -> "?"
FieldNames(chars) ==
    {FieldName(SplitOn(chars, ",")[i]) : i \in DOMAIN SplitOn(chars, ",")}
IsFieldList(chars) == chars # <<>> /\ "?" \notin FieldNames(chars)
KeysOf(projection) == {projection.items[i].k : i \in DOMAIN projection.items}
FlagsIn(projection) == {projection.items[i].v : i \in DOMAIN projection.items}
C21_ProjectionParsing ==
    (/\ Admitted(request) /\ request.method = "GET"
     /\ request.args.projection # Null
     /\ ~JsonLoads(request.args.projection.c).ok) =>
        LET chars == request.args.projection.c
            result == _parse_projection(request.args.projection)
        IN  /\ chars = <<"*">> => result = Parsed(NoProjection)
            /\ IsFieldList(chars) =>
                  /\ result.raised = "none" /\ result.projection.kind = "dict"
                  /\ KeysOf(result.projection) = FieldNames(chars)
                  /\ FlagsIn(result.projection) = {TRUE}
            /\ (chars # <<>> /\ chars[1] = "-" /\ IsFieldList(Tail(chars))) =>
                  /\ result.raised = "none" /\ result.projection.kind = "dict"
                  /\ KeysOf(result.projection) = FieldNames(Tail(chars))
                  /\ FlagsIn(result.projection) = {FALSE}

(***************************************************************************)
(* C21, the part that holds: "*" parses to no projection, and a list of    *)
(* names parses to a projection of one kind, inclusion without the "-" and *)
(* exclusion with it.                                                      *)
(***************************************************************************)
C21_ProjectionKind ==
    (/\ Admitted(request) /\ request.method = "GET"
     /\ request.args.projection # Null
     /\ ~JsonLoads(request.args.projection.c).ok) =>
        LET chars == request.args.projection.c
            result == _parse_projection(request.args.projection)
        IN  /\ chars = <<"*">> => result = Parsed(NoProjection)
            /\ IsFieldList(chars) => FlagsIn(result.projection) = {TRUE}
            /\ (chars # <<>> /\ chars[1] = "-" /\ IsFieldList(Tail(chars))) =>
                  FlagsIn(result.projection) = {FALSE}

(***************************************************************************)
(* C22. Lost update on nested writes: when two concurrent nested-path      *)
(* writes to different sub-paths of the same root document have both read  *)
(* the document before either wrote, and both have reported success, the   *)
(* stored document carries the change of one of them (the last to write)   *)
(* and, at the other's sub-path, the value that was there before: the      *)
(* other writer's change is lost.                                          *)
(***************************************************************************)
IsPrefix(p, q) == Len(p) <= Len(q) /\ SubSeq(q, 1, Len(p)) = p
Apart(p, q) == ~IsPrefix(p, q) /\ ~IsPrefix(q, p)
Succeeded2 == \A w \in Writers : pc[w] = "done" /\ call[w].ok
Changes(w) == At(call[w].element, call[w].loc) # call[w].replacement
BothReadFirst ==
    /\ Succeeded2
    /\ call[1].id = call[2].id
    /\ call[1].element = call[2].element
    /\ Apart(call[1].loc, call[2].loc)
    /\ Changes(1) /\ Changes(2)
LostTo(last, first) ==
    /\ At(store[call[last].id], call[last].loc) = call[last].replacement
    /\ At(store[call[first].id], call[first].loc) = At(call[first].element, call[first].loc)
    /\ At(store[call[first].id], call[first].loc) # call[first].replacement
C22_LostUpdate == BothReadFirst => (LostTo(1, 2) \/ LostTo(2, 1))

C22_Witness ==
    /\ BothReadFirst
    /\ call[1].path = <<Key("a"), Key("b")>> /\ call[1].replacement = IntV(99)
    /\ call[2].path = <<Key("c"), Key("a")>> /\ call[2].replacement = DictV([c |-> IntV(1)])
    /\ LostTo(2, 1)

(***************************************************************************)
(* C23. Configuration immutability: no operation (list, item get, item put *)
(* with or without a path, create, replace, update, delete) modifies the   *)
(* resource definition it is given; the static filter of the resource      *)
(* stays as configured, so that a list on the resource returns every       *)
(* stored document that matches the configured static filter.              *)
(***************************************************************************)
Unkeyed(filter) == [k \in DOMAIN filter \ {"_id"} |-> filter[k]]
ConfiguredFilter == Unkeyed(settings.resources["items"]["filter"])
C23_ConfigurationImmutable ==
    [][/\ settings' = settings
       /\ listing' # listing =>
             \A i \in DOMAIN store :
                Matches(store[i], ConfiguredFilter) =>
                    \E j \in DOMAIN listing'.result : listing'.result[j] = store[i]]_vars

(***************************************************************************)
(* C23, for the endpoints of the application: a request leaves the         *)
(* settings as they are.                                                   *)
(***************************************************************************)
C23_RequestsLeaveSettings ==
    [][request' # request => settings' = settings]_vars

(***************************************************************************)
(* C24. Body validation on mutating verbs: a create, replace or update     *)
(* request, on the resource or on an item of it, that gets to its handler  *)
(* with a body the resource's schema does not accept (for an update: that  *)
(* sets a field the schema does not accept) is answered bad-request and    *)
(* the collection is unchanged.  For replace and update the document       *)
(* addressed is one that is stored.                                        *)
(***************************************************************************)
SchemaAcceptsSet(fields) ==
    /\ DOMAIN fields \subseteq {"k", "owner"}
    /\ "k" \in DOMAIN fields => fields["k"].t = "int"
    /\ "owner" \in DOMAIN fields => fields["owner"].t = "str"
FailsValidation(req) ==
    /\ req.body.is_json
    /\ IF req.method = "PATCH"
       THEN req.body.json.t = "operators" /\ ~SchemaAcceptsSet(req.body.json.set)
       ELSE req.body.json.t \in {"dict", "operators"} /\ ~Validate(req.body).valid
Addressed2(collection, req) ==
    LET filter == UsingResource(settings, req).filter
    IN  Matching(collection, IF req.object_id = 0 THEN filter ELSE WithId(filter, req.object_id)) # <<>>
Mutating(req) ==
    \/ req.method = "POST" /\ req.object_id = 0
    \/ req.method \in {"PUT", "PATCH"} /\ Addressed2(store, req)
C24_BodyValidation ==
    [][(/\ Admitted(request') /\ Mutating(request')
        /\ FailsValidation(request')) =>
            /\ response'.status = 400
            /\ store' = store]_vars

(***************************************************************************)
(* C24, for create and replace: the same, without the update requests.     *)
(***************************************************************************)
C24_CreateReplaceValidation ==
    [][(/\ Admitted(request') /\ Mutating(request')
        /\ request'.method \in {"POST", "PUT"}
        /\ FailsValidation(request')) =>
            /\ response'.status = 400
            /\ store' = store]_vars

(***************************************************************************)
(* C25. Item-level writes touch only the addressed item: a replace or      *)
(* update request for item X of a List resource changes at most the stored *)
(* document whose _id is X; every other document of the collection is      *)
(* after the request what it was before, and none is added or removed.     *)
(***************************************************************************)
ItemWrite(req) ==
    /\ Admitted(req)
    /\ settings.resources[req.resource]["type"] = "list"
    /\ req.method \in {"PUT", "PATCH"}
    /\ req.object_id # 0
C25_ItemWriteFrame ==
    [][ItemWrite(request') =>
          /\ DOMAIN store' = DOMAIN store
          /\ \A i \in DOMAIN store \ {request'.object_id} : store'[i] = store[i]]_vars

(***************************************************************************)
(* C25, where the addressed item is the first stored document that matches *)
(* the filter of the resource: the same.                                   *)
(***************************************************************************)
FirstMatch(collection, req) ==
    LET found == Matching(collection, UsingResource(settings, req).filter)
    IN  found # <<>> /\ IdOf(found[1]) = req.object_id
C25_FirstMatchWriteFrame ==
    [][(ItemWrite(request') /\ FirstMatch(store, request')) =>
          /\ DOMAIN store' = DOMAIN store
          /\ \A i \in DOMAIN store \ {request'.object_id} : store'[i] = store[i]]_vars

(***************************************************************************)
(* C26. Replace, update and delete requests on the resource itself (PUT,   *)
(* PATCH, DELETE with no item id) are for Simple resources: on a List      *)
(* resource such a request replaces, updates, marks or removes no stored   *)
(* document.                                                               *)
(***************************************************************************)
RootWrite(req) ==
    /\ Admitted(req)
    /\ req.method \in {"PUT", "PATCH", "DELETE"}
    /\ req.object_id = 0
C26_RootWritesSimpleOnly ==
    [][(RootWrite(request') /\ settings.resources[request'.resource]["type"] = "list") =>
          store' = store]_vars

(***************************************************************************)
(* C27. Simple-resource uniqueness: starting from an empty collection,     *)
(* after any sequence or interleaving of create requests with valid bodies *)
(* on a Simple resource, at most one of them has been answered with        *)
(* success and the collection holds at most one document.                  *)
(***************************************************************************)
Successes == {c \in Clients : pc[c] = "done" /\ response[c].status = 201}
C27_SimpleUniqueness ==
    /\ Cardinality(Successes) <= 1
    /\ Cardinality(DOMAIN store) <= 1

(***************************************************************************)
(* C28. Create-then-read on a soft-delete resource: a document inserted by *)
(* a successful create request, and for which no delete has succeeded, is  *)
(* returned by the list requests and by the item-read requests for it that *)
(* come after on that resource.                                            *)
(***************************************************************************)
InsertedThrough(collection) == {i \in DOMAIN collection : i > MaxDocs /\ ~Marked(collection[i])}
C28_CreateThenRead ==
    [][(SoftDeleted(request') /\ request'.method = "GET") =>
          \A i \in InsertedThrough(store) :
             /\ (request'.object_id = 0 /\ settings.resources[request'.resource]["type"] = "list") =>
                   \E j \in DOMAIN response'.body : response'.body[j] = store[i]
             /\ request'.object_id = i =>
                   /\ response'.status = 200
                   /\ response'.body = <<store[i]>>]_vars

(***************************************************************************)
(* C28, without soft delete: the same on a resource that hard-deletes, for *)
(* the item-read requests.                                                 *)
(***************************************************************************)
C28_CreateThenReadItem ==
    [][(/\ Admitted(request') /\ ~settings.resources[request'.resource]["soft_delete"]
        /\ request'.method = "GET") =>
          \A i \in InsertedThrough(store) :
             request'.object_id = i =>
                /\ response'.status = 200
                /\ response'.body = <<store[i]>>]_vars

(***************************************************************************)
(* What the claims about listing speak of: the _ids of a result, and the   *)
(* _ids of the collection in the order asked for.                          *)
(***************************************************************************)
IdsOf(documents) == [i \in DOMAIN documents |-> documents[i].d["_id"].n]
ById == {Null, ListV(<<>>), ListV(<<"_id">>)}
ByIdDescending == {ListV(<<"-_id">>)}
IdsInOrder(order_by) ==
    LET N == Cardinality(DOMAIN store)
    IN  [i \in 1..N |-> IF order_by \in ByIdDescending THEN N + 1 - i ELSE i]

(***************************************************************************)
(* C15. List pagination: listing a collection of N documents, in _id order *)
(* ascending or descending, with a supplied offset o and a supplied limit  *)
(* l returns exactly the documents at positions o+1 .. min(o+l, N) of that *)
(* order, in order.                                                        *)
(***************************************************************************)
C15_ListPagination ==
    (/\ listing.called /\ listing.cursor # Null
     /\ listing.cursor.order_by \in ById \cup ByIdDescending
     /\ listing.cursor.offset # Null /\ listing.cursor.offset.n >= 0
     /\ listing.cursor.limit # Null /\ listing.cursor.limit.n >= 1) =>
        LET o == listing.cursor.offset.n
            l == listing.cursor.limit.n
            N == Cardinality(DOMAIN store)
        IN  IdsOf(listing.result) = SubSeq(IdsInOrder(listing.cursor.order_by), o + 1, Min(o + l, N))

(***************************************************************************)
(* C16. Cursor defaults and bounds: the offset handed to the store query   *)
(* is 0 when the cursor supplies none and is never negative; the limit     *)
(* handed to it is never below 1 and, when the cursor supplies none, is    *)
(* the configured maximum number of results, itself at least 1.            *)
(***************************************************************************)
C16_CursorBounds ==
    (listing.called /\ listing.raised = "none") =>
        /\ max_results >= 1
        /\ listing.skip >= 0
        /\ listing.limit >= 1
        /\ (listing.cursor = Null \/ listing.cursor.offset = Null) => listing.skip = 0
        /\ (listing.cursor = Null \/ listing.cursor.limit = Null) => listing.limit = max_results

====
